---- MODULE Spec2Model ----
(***************************************************************************)
(* StarryDex core (src/src/core.rs): population of the Pokemon collection  *)
(* from the remote API, the archived snapshot file and its memory-mapped   *)
(* read path, and the query layer over the mapped view.                    *)
(*                                                                         *)
(* Eleven specifications share the definitions below:                      *)
(*   SpecFetch    StarryApi::fetch_all_pokemon, one step per request       *)
(*   SpecFetchLive  the same under weak fairness of the executor           *)
(*   SpecStore    cache file, save_to_file / load_from_file / initialize / *)
(*                refresh_data, handles and their mappings, process kill   *)
(*   SpecQuery    paging, lookup, search and type filters of StarryCore    *)
(*                over a loaded snapshot                                   *)
(*   SpecFilter   generation and total-stats filters over a listing        *)
(*   SpecExtract  flattening of an evolution chain and the requirement of  *)
(*                an edge                                                  *)
(*   SpecDetails  one fetch_pokemon_details call, the species' chain URL   *)
(*                drawn from a set of forms                                *)
(*   SpecSprites  download_all_pokemon_sprites and download_image          *)
(*   SpecUpgrade  the cache directory across two releases                  *)
(*   SpecBuilds   initialize tasks spawned by the message handlers,        *)
(*                running side by side                                     *)
(*   SpecApp      AppModel::update (src/src/app.rs): the list, the search, *)
(*                the filters and the details page of State::Ready         *)
(***************************************************************************)
EXTENDS Integers, Sequences, FiniteSets, TLC

(***************************************************************************)
(* Bounds of the model.                                                    *)
(***************************************************************************)
\* entities the remote listing knows (SpecFetch, SpecQuery)
NumEntities == 3
\* entities the remote listing knows in SpecStore
StoreEntities == 1
\* width of the semaphore and of buffer_unordered, scaled down from 30
FetchWidth == 2
\* width of the semaphore and of buffer_unordered of the sprite batch,
\* scaled down from 20
SpriteWidth == 2
\* largest offset and limit handed to get_pokemon_page, largest id looked up
MaxOffset == 4
MaxLimit == 4
MaxLookupId == 8
\* files ever created at the cache path, handles ever returned, clones per handle
MaxInodes == 2
MaxHandles == 2
MaxClones == 1
\* process terminations
MaxKills == 1
\* words one write() of write_all transfers at most
WriteChunk == 18
\* nodes of an evolution tree
MaxNodes == 4
\* detail records of one edge
MaxDetails == 2
\* initialize tasks the runtime holds at one time
MaxTasks == 2
\* entities of the snapshot the application shows (SpecApp)
AppEntities == 2
\* the greatest pokemon_per_page of the configuration
MaxPerPage == 1

(***************************************************************************)
(* Rust's Option and Result.                                               *)
(***************************************************************************)
None == <<>>
Some(x) == <<x>>
IsSome(o) == Len(o) = 1
Unwrap(o) == o[1]

Err == [ok |-> FALSE]
Ok(x) == [ok |-> TRUE, val |-> x]

Min(a, b) == IF a <= b THEN a ELSE b

(***************************************************************************)
(* The remote data service (PokeAPI), as far as the core reads it.  An     *)
(* entity is named by its position in the listing; its id is the service's *)
(* primary key, so two entities never share an id.  The listing is not in  *)
(* id order.                                                               *)
(***************************************************************************)
ApiIdTable == <<4, 1, 7, 2, 9>>
ApiNameTable == <<"charmander", "bulbasaur", "Squirtle", "ivysaur", "Charizard">>
ApiWeightTable == <<85, 69, 90, 130, 905>>
ApiHeightTable == <<6, 7, 5, 10, 17>>
ApiTypesTable ==
    << <<"fire">>, <<"grass", "poison">>, <<"water">>, <<"grass", "poison">>,
       <<"fire", "flying">> >>
\* each ability as the service lists it: its name and the is_hidden flag
ApiAbilitiesTable ==
    << << <<"blaze", FALSE>>, <<"solar-power", TRUE>> >>,
       << <<"overgrow", FALSE>>, <<"chlorophyll", TRUE>> >>,
       << <<"torrent", FALSE>> >>,
       << <<"overgrow", FALSE>> >>,
       << <<"blaze", FALSE>> >> >>
ApiStatsTable ==
    << [hp |-> 39, attack |-> 52, defense |-> 43, sp_attack |-> 60, sp_defense |-> 50, speed |-> 65],
       [hp |-> 45, attack |-> 49, defense |-> 49, sp_attack |-> 65, sp_defense |-> 65, speed |-> 45],
       [hp |-> 44, attack |-> 48, defense |-> 65, sp_attack |-> 50, sp_defense |-> 64, speed |-> 43],
       [hp |-> 60, attack |-> 62, defense |-> 63, sp_attack |-> 80, sp_defense |-> 80, speed |-> 60],
       [hp |-> 78, attack |-> 84, defense |-> 78, sp_attack |-> 109, sp_defense |-> 85, speed |-> 100] >>
\* sprites.front_default: present or not
ApiFrontDefaultTable == <<TRUE, TRUE, FALSE, TRUE, TRUE>>
\* species: generation name and the trailing segment of the evolution-chain URL
\* (<<>>: the species has no evolution_chain)
ApiGenerationTable ==
    <<"generation-i", "generation-i", "generation-ii", "Generation-III", "generation-x">>
ApiChainSegmentTable == << <<"2">>, <<"1">>, <<"0">>, <<"x">>, <<>> >>
\* encounters: the location areas
ApiEncounterTable == << <<>>, <<"pallet-town-area">>, <<>>, <<"cerulean-city-area">>, <<>> >>

ApiId(e) == ApiIdTable[e]
ApiName(e) == ApiNameTable[e]

ApiWeight(e) == ApiWeightTable[e]
ApiHeight(e) == ApiHeightTable[e]
ApiTypes(e) == ApiTypesTable[e]
ApiAbilities(e) == ApiAbilitiesTable[e]
ApiStats(e) == ApiStatsTable[e]
ApiFrontDefault(e) == ApiFrontDefaultTable[e]
ApiGeneration(e) == ApiGenerationTable[e]
ApiChainSegment(e) == ApiChainSegmentTable[e]
\* the evolution_chain reference of the species: its URL, in pieces
ChainUrl(seg) == <<"https:", "", "pokeapi.co", "api", "v2", "evolution-chain", seg, "">>
ApiEvolutionChain(e) ==
    IF IsSome(ApiChainSegment(e)) THEN Some(ChainUrl(Unwrap(ApiChainSegment(e)))) ELSE None
ApiEncounters(e) == ApiEncounterTable[e]

\* an evolution detail with no condition set
NoDetail ==
    [min_level |-> None, item |-> None, held_item |-> None, min_happiness |-> None,
     time_of_day |-> "", location |-> None, known_move |-> None,
     relative_physical_stats |-> None]
ChainLeaf(name, id, details) ==
    [species |-> [name |-> name, id |-> id], evolution_details |-> details,
     evolves_to |-> <<>>]
\* the evolution chains the service knows, by chain id
ApiChainTable ==
    << [species |-> [name |-> "bulbasaur", id |-> 1], evolution_details |-> <<>>,
        evolves_to |->
          << [species |-> [name |-> "ivysaur", id |-> 2],
              evolution_details |-> << [NoDetail EXCEPT !.min_level = Some(16)] >>,
              evolves_to |->
                << ChainLeaf("venusaur", 3, << [NoDetail EXCEPT !.min_level = Some(32)] >>) >> ] >> ],
       [species |-> [name |-> "charmander", id |-> 4], evolution_details |-> <<>>,
        evolves_to |->
          << ChainLeaf("charmeleon", 5, << [NoDetail EXCEPT !.min_level = Some(16)] >>),
             ChainLeaf("charizard", 6, << [NoDetail EXCEPT !.item = Some("fire-stone")],
                                          [NoDetail EXCEPT !.min_level = Some(36)] >>) >> ] >>

(***************************************************************************)
(* String helpers of the code, on the strings the model uses.              *)
(***************************************************************************)
\* str::to_lowercase
to_lowercase(s) ==
    CASE s = "Squirtle" -> "squirtle"
      [] s = "Charizard" -> "charizard"
      [] s = "Generation-III" -> "generation-iii"
      [] s = "CHAR" -> "char"
      [] s = "Saur" -> "saur"
      [] s = "Fire" -> "fire"
      [] OTHER -> s

\* str::chars: the characters of the strings the search meets
chars(s) ==
    CASE s = "" -> <<>>
      [] s = "charmander" -> <<"c", "h", "a", "r", "m", "a", "n", "d", "e", "r">>
      [] s = "bulbasaur" -> <<"b", "u", "l", "b", "a", "s", "a", "u", "r">>
      [] s = "Squirtle" -> <<"S", "q", "u", "i", "r", "t", "l", "e">>
      [] s = "squirtle" -> <<"s", "q", "u", "i", "r", "t", "l", "e">>
      [] s = "ivysaur" -> <<"i", "v", "y", "s", "a", "u", "r">>
      [] s = "Charizard" -> <<"C", "h", "a", "r", "i", "z", "a", "r", "d">>
      [] s = "charizard" -> <<"c", "h", "a", "r", "i", "z", "a", "r", "d">>
      [] s = "char" -> <<"c", "h", "a", "r">>
      [] s = "CHAR" -> <<"C", "H", "A", "R">>
      [] s = "saur" -> <<"s", "a", "u", "r">>
      [] s = "Saur" -> <<"S", "a", "u", "r">>
      [] s = "irt" -> <<"i", "r", "t">>
      [] s = "z" -> <<"z">>

\* char::to_lowercase on the letters these strings have in upper case
lower_char(c) ==
    CASE c = "A" -> "a"
      [] c = "C" -> "c"
      [] c = "H" -> "h"
      [] c = "R" -> "r"
      [] c = "S" -> "s"
      [] OTHER -> c

\* str::contains on character sequences
contains(haystack, needle) ==
    \E i \in 0..(Len(haystack) - Len(needle)) :
        SubSeq(haystack, i + 1, i + Len(needle)) = needle

\* capitalize_string (split at '-', upper-case each first letter, join with ' ')
capitalize_string(s) ==
    CASE s = "bulbasaur" -> "Bulbasaur"
      [] s = "ivysaur" -> "Ivysaur"
      [] s = "venusaur" -> "Venusaur"
      [] s = "charmander" -> "Charmander"
      [] s = "charmeleon" -> "Charmeleon"
      [] s = "charizard" -> "Charizard"
      [] s = "fire-stone" -> "Fire Stone"
      [] s = "metal-coat" -> "Metal Coat"
      [] s = "night" -> "Night"
      [] s = "mt-coronet" -> "Mt Coronet"
      [] s = "ancient-power" -> "Ancient Power"
      [] s = "pallet-town-area" -> "Pallet Town Area"
      [] s = "cerulean-city-area" -> "Cerulean City Area"
      [] OTHER -> s

\* format!("{prefix}{n}") and format!("{prefix}{text}"): the formatted string
\* is kept as its parts
FormatInt(prefix, n) == <<prefix, "", n>>
FormatStr(prefix, text) == <<prefix, text, 0>>

\* str::parse::<i64> on the trailing segment of a chain URL
ParseI64(seg) ==
    CASE seg = "0" -> Some(0)
      [] seg = "1" -> Some(1)
      [] seg = "2" -> Some(2)
      [] seg = "01" -> Some(1)
      [] seg = "+2" -> Some(2)
      [] seg = "-1" -> Some(0 - 1)
      [] seg = "00" -> Some(0)
      [] OTHER -> None

\* A URL is the sequence of the pieces between its '/' characters, as
\* str::split('/') yields them: "a/b/" is <<"a", "b", "">>, "" is <<"">>.
\* str::trim_end_matches('/'): the trailing '/' characters are removed, that
\* is the trailing empty pieces, down to one piece
RECURSIVE trim_end_matches_slash(_)
trim_end_matches_slash(url) ==
    IF Len(url) > 1 /\ url[Len(url)] = ""
    THEN trim_end_matches_slash(SubSeq(url, 1, Len(url) - 1))
    ELSE url
\* .split('/').next_back(): the last piece
next_back(pieces) == IF pieces = <<>> THEN None ELSE Some(pieces[Len(pieces)])
\* a slip: the id 0 is not rejected
evolution_chain_id_accepts_zero(evolution_chain) ==
    IF ~IsSome(evolution_chain) THEN Err
    ELSE LET seg == next_back(trim_end_matches_slash(Unwrap(evolution_chain))) IN
         IF ~IsSome(seg) THEN Err
         ELSE LET id == ParseI64(Unwrap(seg)) IN
              IF ~IsSome(id) THEN Err
              ELSE Ok(Unwrap(id))
\* the chain id of a species' evolution_chain reference (core.rs:472-489):
\* Err for no reference, an unparseable trailing segment, or the id 0
evolution_chain_id(evolution_chain) ==
    IF ~IsSome(evolution_chain) THEN Err
    ELSE LET seg == next_back(trim_end_matches_slash(Unwrap(evolution_chain))) IN
         IF ~IsSome(seg) THEN Err
         ELSE LET id == ParseI64(Unwrap(seg)) IN
              IF ~IsSome(id) THEN Err
              ELSE IF Unwrap(id) = 0 THEN Err
              ELSE Ok(Unwrap(id))

\* StarryPokemonGeneration::from_name
from_name(name) ==
    LET n == to_lowercase(name) IN
    CASE n = "generation-i" -> "One"
      [] n = "generation-ii" -> "Two"
      [] n = "generation-iii" -> "Three"
      [] n = "generation-iv" -> "Four"
      [] n = "generation-v" -> "Five"
      [] n = "generation-vi" -> "Six"
      [] n = "generation-vii" -> "Seven"
      [] n = "generation-viii" -> "Eight"
      [] n = "generation-ix" -> "Nine"
      [] OTHER -> "Unknown"

(***************************************************************************)
(* Evolution data of a chain (core.rs:687-788).                            *)
(***************************************************************************)
\* the requirement read from one detail record (core.rs:739-787)
RequirementOf(detail) ==
         IF IsSome(detail.min_level) THEN Some(FormatInt("Level ", Unwrap(detail.min_level)))
         ELSE IF IsSome(detail.item) THEN Some(FormatStr("", capitalize_string(Unwrap(detail.item))))
         ELSE IF IsSome(detail.held_item)
              THEN Some(FormatStr("Holding ", capitalize_string(Unwrap(detail.held_item))))
         ELSE IF IsSome(detail.min_happiness)
              THEN Some(FormatInt("Happiness ", Unwrap(detail.min_happiness)))
         ELSE IF detail.time_of_day # ""
              THEN Some(FormatStr("During ", capitalize_string(detail.time_of_day)))
         ELSE IF IsSome(detail.location)
              THEN Some(FormatStr("At ", capitalize_string(Unwrap(detail.location))))
         ELSE IF IsSome(detail.known_move)
              THEN Some(FormatStr("Knowing ", capitalize_string(Unwrap(detail.known_move))))
         ELSE IF IsSome(detail.relative_physical_stats)
              THEN LET r == Unwrap(detail.relative_physical_stats) IN
                   IF r = 1 THEN Some(FormatStr("Attack > Defense", ""))
                   ELSE IF r = -1 THEN Some(FormatStr("Defense > Attack", ""))
                   ELSE IF r = 0 THEN Some(FormatStr("Attack = Defense", ""))
                   ELSE None
         ELSE None

\* a plausible slip: the last detail record is consulted
extract_evolution_requirement_last(evolution_details) ==
    IF Len(evolution_details) = 0 THEN None
    ELSE RequirementOf(evolution_details[Len(evolution_details)])

\* extract_evolution_requirement (core.rs:730-788)
extract_evolution_requirement(evolution_details) ==
    IF Len(evolution_details) = 0 THEN None
    ELSE LET detail == evolution_details[1] IN RequirementOf(detail)

RECURSIVE extract_evolution_data_from_chain_link(_)
RECURSIVE ExtendEvolved(_, _)
\* a plausible slip: last_mut in place of first_mut
ExtendEvolvedLast(evolves_to, i) ==
    IF i > Len(evolves_to) THEN <<>>
    ELSE LET evolution == evolves_to[i]
             evolved_data == extract_evolution_data_from_chain_link(evolution)
             last_evolution ==
                 [evolved_data[Len(evolved_data)] EXCEPT !.needs_to_evolve =
                     extract_evolution_requirement(evolution.evolution_details)]
         IN  SubSeq(evolved_data, 1, Len(evolved_data) - 1) \o <<last_evolution>>
                 \o ExtendEvolved(evolves_to, i + 1)

\* the loop over chain_link.evolves_to, from child i on
ExtendEvolved(evolves_to, i) ==
    IF i > Len(evolves_to) THEN <<>>
    ELSE LET evolution == evolves_to[i]
             evolved_data == extract_evolution_data_from_chain_link(evolution)
             first_evolution ==
                 [evolved_data[1] EXCEPT !.needs_to_evolve =
                     extract_evolution_requirement(evolution.evolution_details)]
         IN  <<first_evolution>> \o Tail(evolved_data) \o ExtendEvolved(evolves_to, i + 1)
extract_evolution_data_from_chain_link(chain_link) ==
    << [id |-> chain_link.species.id,
        name |-> capitalize_string(chain_link.species.name),
        sprite_path |-> Some(<<"sprites", chain_link.species.name>>),
        needs_to_evolve |-> None] >>
    \o ExtendEvolved(chain_link.evolves_to, 1)

(***************************************************************************)
(* StarryApi::fetch_pokemon_details (core.rs:459-602).  oc holds how each  *)
(* request of the entity ended: "ok", "err", or "none" for a request that  *)
(* was not made.                                                           *)
(***************************************************************************)
RequestOutcomes == {"ok", "err"}
NoRequests == [detail |-> "none", encounter |-> "none", species |-> "none", evolution |-> "none"]

\* the chain id parsed from the species' evolution_chain URL (core.rs:472-489)
EvolutionChainId(e) == evolution_chain_id(ApiEvolutionChain(e))

\* the sprite path written into a record (core.rs:506-512)
SpritePath(e) == IF ApiFrontDefault(e) THEN Some(<<"sprites", ApiName(e)>>) ELSE None

StarryPokemonDataOf(e) ==
    [id |-> ApiId(e),
     name |-> ApiName(e),
     weight |-> ApiWeight(e),
     height |-> ApiHeight(e),
     types |-> ApiTypes(e),
     abilities |-> [i \in 1..Len(ApiAbilities(e)) |->
                      IF ApiAbilities(e)[i][2] THEN <<ApiAbilities(e)[i][1], "(HIDDEN)">>
                      ELSE <<ApiAbilities(e)[i][1]>>],
     stats |-> ApiStats(e)]

StarryEncounterInfoOf(e) ==
    [i \in 1..Len(ApiEncounters(e)) |-> [city |-> capitalize_string(ApiEncounters(e)[i])]]

\* the StarryPokemonSpecie built from a species response whose
\* evolution_chain reference is evolution_chain (core.rs:568-590)
StarrySpecieFrom(e, evolution_chain, evolution) ==
    [generation |-> from_name(ApiGeneration(e)),
     evolution_data |->
        IF evolution = "ok"
        THEN extract_evolution_data_from_chain_link(
                 ApiChainTable[evolution_chain_id(evolution_chain).val])
        ELSE <<>>]
StarrySpecieOf(e, evolution) == StarrySpecieFrom(e, ApiEvolutionChain(e), evolution)

\* what the pipeline of e returns when its requests ended as oc says and the
\* species response carried the reference evolution_chain
fetch_pokemon_details_from(e, evolution_chain, oc) ==
    IF oc.detail # "ok" THEN Err
    ELSE IF oc.encounter # "ok" THEN Err
    ELSE Ok([pokemon |-> StarryPokemonDataOf(e),
             specie |-> IF oc.species = "ok"
                        THEN Some(StarrySpecieFrom(e, evolution_chain, oc.evolution))
                        ELSE None,
             sprite_path |-> SpritePath(e),
             encounter_info |-> Some(StarryEncounterInfoOf(e))])
fetch_pokemon_details(e, oc) == fetch_pokemon_details_from(e, ApiEvolutionChain(e), oc)

(***************************************************************************)
(* The end of fetch_all_pokemon (core.rs:449-455): the results, in the     *)
(* order the pipelines completed, keep only the successes and are          *)
(* collected into a BTreeMap keyed by pokemon.id (a later result replaces  *)
(* an earlier one under the same key).                                     *)
(***************************************************************************)
IsOk(r) == r.ok

\* a plausible slip: the map is keyed by the position of arrival
CollectByArrival(results) ==
    LET oks == SelectSeq(results, IsOk)
    IN  [k \in 1..Len(oks) |-> oks[k].val]

\* a plausible slip (the older Api::fetch_all_pokemon): a failed pipeline
\* yields a default record, with id 0, instead of being dropped
CollectUnfiltered(results) ==
    LET ids == {IF results[i].ok THEN results[i].val.pokemon.id ELSE 0 :
                   i \in 1..Len(results)}
        Last(k) == CHOOSE i \in 1..Len(results) :
                     /\ (IF results[i].ok THEN results[i].val.pokemon.id ELSE 0) = k
                     /\ \A j \in (i + 1)..Len(results) :
                          (IF results[j].ok THEN results[j].val.pokemon.id ELSE 0) # k
    IN  [k \in ids |-> IF results[Last(k)].ok THEN results[Last(k)].val
                       ELSE [pokemon |-> [id |-> 0, name |-> "", weight |-> 0, height |-> 0,
                                          types |-> <<>>, abilities |-> <<>>,
                                          stats |-> [hp |-> 0, attack |-> 0, defense |-> 0,
                                                     sp_attack |-> 0, sp_defense |-> 0,
                                                     speed |-> 0]],
                             specie |-> None, sprite_path |-> None,
                             encounter_info |-> Some(<<>>)]]

CollectPokemonMap(results) ==
    LET oks == SelectSeq(results, IsOk)
        ids == {oks[i].val.pokemon.id : i \in 1..Len(oks)}
        Last(k) == CHOOSE i \in 1..Len(oks) :
                     /\ oks[i].val.pokemon.id = k
                     /\ \A j \in (i + 1)..Len(oks) : oks[j].val.pokemon.id # k
    IN  [k \in ids |-> oks[Last(k)].val]

(***************************************************************************)
(* The archive (rkyv::to_bytes at core.rs:370, rkyv::access at             *)
(* core.rs:60, 99, 396).  A blob is a sequence of words: the records in    *)
(* key order, each its key followed by the RecWidth words of the record,   *)
(* and the root (the number of entries) in the last word, as rkyv puts the *)
(* root object at the end of the buffer.  Strings and lists are stored as  *)
(* their index in a pool.                                                  *)
(***************************************************************************)
RecWidth == 17
EntryWidth == RecWidth + 1

GenerationPool ==
    <<"Unknown", "One", "Two", "Three", "Four", "Five", "Six", "Seven", "Eight", "Nine">>
NamePool == ApiNameTable
TypesPool == ApiTypesTable
AbilitiesPool == [e \in 1..Len(ApiIdTable) |-> StarryPokemonDataOf(e).abilities]
EvolutionPool ==
    [c \in 1..Len(ApiChainTable) |-> extract_evolution_data_from_chain_link(ApiChainTable[c])]
SpritePool == [e \in 1..Len(ApiIdTable) |-> <<"sprites", ApiName(e)>>]
EncounterPool == [e \in 1..Len(ApiIdTable) |-> StarryEncounterInfoOf(e)]

IndexOf(pool, x) == CHOOSE i \in 1..Len(pool) : pool[i] = x

RECURSIVE SortedSeq(_)
\* the elements of a set of integers, ascending
SortedSeq(S) ==
    IF S = {} THEN <<>>
    ELSE LET m == CHOOSE x \in S : \A y \in S : x <= y
         IN  <<m>> \o SortedSeq(S \ {m})

SerializeRecord(p) ==
    << p.pokemon.id,
       IndexOf(NamePool, p.pokemon.name),
       p.pokemon.weight,
       p.pokemon.height,
       IndexOf(TypesPool, p.pokemon.types),
       IndexOf(AbilitiesPool, p.pokemon.abilities),
       p.pokemon.stats.hp,
       p.pokemon.stats.attack,
       p.pokemon.stats.defense,
       p.pokemon.stats.sp_attack,
       p.pokemon.stats.sp_defense,
       p.pokemon.stats.speed,
       IF IsSome(p.specie) THEN 1 ELSE 0,
       IF IsSome(p.specie) THEN IndexOf(GenerationPool, Unwrap(p.specie).generation) ELSE 0,
       IF IsSome(p.specie) /\ Unwrap(p.specie).evolution_data # <<>>
       THEN IndexOf(EvolutionPool, Unwrap(p.specie).evolution_data) ELSE 0,
       IF IsSome(p.sprite_path) THEN IndexOf(SpritePool, Unwrap(p.sprite_path)) ELSE 0,
       IF IsSome(p.encounter_info)
       THEN IndexOf(EncounterPool, Unwrap(p.encounter_info)) ELSE 0 >>

RECURSIVE SerializeEntries(_, _)
SerializeEntries(pokemons, keys) ==
    IF keys = <<>> THEN <<>>
    ELSE <<Head(keys)>> \o SerializeRecord(pokemons[Head(keys)])
         \o SerializeEntries(pokemons, Tail(keys))

\* rkyv::to_bytes(&pokemons)
to_bytes(pokemons) ==
    SerializeEntries(pokemons, SortedSeq(DOMAIN pokemons)) \o <<Cardinality(DOMAIN pokemons)>>

\* the key of entry i of a blob, and the words of its record
KeyWord(bytes, i) == bytes[(i - 1) * EntryWidth + 1]
RecordWords(bytes, i) == SubSeq(bytes, (i - 1) * EntryWidth + 2, i * EntryWidth)

\* bytecheck of one archived record: every index and tag is in range
ValidRecord(w) ==
    /\ w[2] \in 1..Len(NamePool)
    /\ w[5] \in 1..Len(TypesPool)
    /\ w[6] \in 1..Len(AbilitiesPool)
    /\ w[13] \in {0, 1}
    /\ IF w[13] = 1 THEN w[14] \in 1..Len(GenerationPool) /\ w[15] \in 0..Len(EvolutionPool)
       ELSE w[14] = 0 /\ w[15] = 0
    /\ w[16] \in 0..Len(SpritePool)
    /\ w[17] \in 0..Len(EncounterPool)

\* the archived record read in place
ArchivedRecord(w) ==
    [pokemon |-> [id |-> w[1],
                  name |-> NamePool[w[2]],
                  weight |-> w[3],
                  height |-> w[4],
                  types |-> TypesPool[w[5]],
                  abilities |-> AbilitiesPool[w[6]],
                  stats |-> [hp |-> w[7], attack |-> w[8], defense |-> w[9],
                             sp_attack |-> w[10], sp_defense |-> w[11], speed |-> w[12]]],
     specie |-> IF w[13] = 1
                THEN Some([generation |-> GenerationPool[w[14]],
                           evolution_data |-> IF w[15] = 0 THEN <<>> ELSE EvolutionPool[w[15]]])
                ELSE None,
     sprite_path |-> IF w[16] = 0 THEN None ELSE Some(SpritePool[w[16]]),
     encounter_info |-> IF w[17] = 0 THEN None ELSE Some(EncounterPool[w[17]])]

\* validation of a whole blob: the root is in bounds and counts the entries
\* that fill the buffer, every entry is well formed, the keys ascend
ValidArchive(bytes) ==
    /\ Len(bytes) >= 1
    /\ LET n == bytes[Len(bytes)] IN
         /\ n >= 0
         /\ Len(bytes) = n * EntryWidth + 1
         /\ \A i \in 1..n : ValidRecord(RecordWords(bytes, i))
         /\ \A i \in 1..(n - 1) : KeyWord(bytes, i) < KeyWord(bytes, i + 1)

\* the ArchivedBTreeMap over valid bytes: key -> archived record
ArchivedMap(bytes) ==
    LET n == bytes[Len(bytes)]
        keyAt == [i \in 1..n |-> KeyWord(bytes, i)]
    IN  [k \in {keyAt[i] : i \in 1..n} |->
            ArchivedRecord(RecordWords(bytes, CHOOSE i \in 1..n : keyAt[i] = k))]

\* rkyv::access::<ArchivedStarryPokemonMap, rancor::Error>(&bytes[..])
access(bytes) == IF ValidArchive(bytes) THEN Ok(ArchivedMap(bytes)) ELSE Err

(***************************************************************************)
(* The query layer (core.rs:129-188).  data is inner.pokemon_data: None,   *)
(* or Some of the archived map.                                            *)
(***************************************************************************)
\* a plausible slip: the entries are walked from the greatest key down
IterDescending(d) == [i \in 1..Cardinality(DOMAIN d) |->
               <<SortedSeq(DOMAIN d)[Cardinality(DOMAIN d) + 1 - i],
                 d[SortedSeq(DOMAIN d)[Cardinality(DOMAIN d) + 1 - i]]>>]

\* data.iter(): the entries in key order
Iter(d) == [i \in 1..Cardinality(DOMAIN d) |->
               <<SortedSeq(DOMAIN d)[i], d[SortedSeq(DOMAIN d)[i]]>>]
\* Iterator::skip and Iterator::take
Skip(seq, n) == SubSeq(seq, n + 1, Len(seq))
Take(seq, n) == SubSeq(seq, 1, Min(n, Len(seq)))
\* usize::saturating_sub
saturating_sub(a, b) == IF a >= b THEN a - b ELSE 0

\* the PokemonInfo built from an entry of the map
PokemonInfo(entry) ==
    [id |-> entry[1], name |-> entry[2].pokemon.name, sprite_path |-> entry[2].sprite_path]
PokemonInfos(entries) == [i \in 1..Len(entries) |-> PokemonInfo(entries[i])]

\* StarryCore::get_pokemon_by_id
get_pokemon_by_id(data, id) ==
    IF ~IsSome(data) THEN None
    ELSE IF id \in DOMAIN Unwrap(data) THEN Some(Unwrap(data)[id]) ELSE None

\* StarryCore::get_pokemon_list
get_pokemon_list(data) ==
    IF IsSome(data) THEN PokemonInfos(Iter(Unwrap(data))) ELSE <<>>

\* a plausible slip: the clamped offset is the one skipped
get_pokemon_page_skip_adjusted(data, offset, limit) ==
    IF IsSome(data)
    THEN LET d == Unwrap(data)
             total_count == Cardinality(DOMAIN d)
         IN  IF total_count = 0 \/ limit = 0 THEN <<>>
             ELSE LET adjusted_offset == Min(offset, saturating_sub(total_count, 1))
                      actual_limit == Min(limit, total_count - adjusted_offset)
                  IN  PokemonInfos(Take(Skip(Iter(d), adjusted_offset), actual_limit))
    ELSE <<>>

\* StarryCore::get_pokemon_page
get_pokemon_page(data, offset, limit) ==
    IF IsSome(data)
    THEN LET d == Unwrap(data)
             total_count == Cardinality(DOMAIN d)
         IN  IF total_count = 0 \/ limit = 0 THEN <<>>
             ELSE LET adjusted_offset == Min(offset, saturating_sub(total_count, 1))
                      actual_limit == Min(limit, total_count - adjusted_offset)
                  IN  PokemonInfos(Take(Skip(Iter(d), offset), actual_limit))
    ELSE <<>>

\* get_pokemon_page panics exactly when its one unchecked usize subtraction,
\* total_count - adjusted_offset (core.rs:174), would go below zero
get_pokemon_page_panics(data, offset, limit) ==
    /\ IsSome(data)
    /\ LET total_count == Cardinality(DOMAIN Unwrap(data)) IN
         /\ ~(total_count = 0 \/ limit = 0)
         /\ total_count < Min(offset, saturating_sub(total_count, 1))

(***************************************************************************)
(* The search (core.rs:191-212).                                           *)
(***************************************************************************)
\* a plausible slip: the query is compared as typed
search_pokemon_query_as_typed(data, query) ==
    IF IsSome(data)
    THEN PokemonInfos(SelectSeq(Iter(Unwrap(data)),
            LAMBDA entry : contains(chars(to_lowercase(entry[2].pokemon.name)), chars(query))))
    ELSE <<>>

\* StarryCore::search_pokemon
search_pokemon(data, query) ==
    IF IsSome(data)
    THEN LET query_lower == to_lowercase(query) IN
         PokemonInfos(SelectSeq(Iter(Unwrap(data)),
            LAMBDA entry : contains(chars(to_lowercase(entry[2].pokemon.name)),
                                    chars(query_lower))))
    ELSE <<>>

(***************************************************************************)
(* The type filters (core.rs:215-266).  selected_types is a set of strings. *)
(***************************************************************************)
\* the types of an archived record, as a sequence
TypesOf(pokemon) == pokemon.pokemon.types

\* a plausible slip: the empty selection is not treated apart
InclusiveMatchNoEmptyRule(pokemon, selected_types) ==
    \E i \in 1..Len(TypesOf(pokemon)) : to_lowercase(TypesOf(pokemon)[i]) \in selected_types

\* the closure of filter_pokemon_inclusive (core.rs:221-228)
InclusiveMatch(pokemon, selected_types) ==
    \/ selected_types = {}
    \/ \E i \in 1..Len(TypesOf(pokemon)) : to_lowercase(TypesOf(pokemon)[i]) \in selected_types

\* the closure of filter_pokemon_exclusive (core.rs:247-256)
ExclusiveMatch(pokemon, selected_types) ==
    \/ selected_types = {}
    \/ \A selected_type \in selected_types :
          \E i \in 1..Len(TypesOf(pokemon)) : to_lowercase(TypesOf(pokemon)[i]) = selected_type

\* a plausible slip: inclusive asks for every selected type
filter_pokemon_inclusive_all(data, selected_types) ==
    IF IsSome(data)
    THEN PokemonInfos(SelectSeq(Iter(Unwrap(data)),
                                LAMBDA entry : ExclusiveMatch(entry[2], selected_types)))
    ELSE <<>>

\* StarryCore::filter_pokemon_inclusive
filter_pokemon_inclusive(data, selected_types) ==
    IF IsSome(data)
    THEN PokemonInfos(SelectSeq(Iter(Unwrap(data)),
                                LAMBDA entry : InclusiveMatch(entry[2], selected_types)))
    ELSE <<>>

\* a plausible slip: exclusive asks for any selected type
filter_pokemon_exclusive_any(data, selected_types) ==
    IF IsSome(data)
    THEN PokemonInfos(SelectSeq(Iter(Unwrap(data)),
                                LAMBDA entry : InclusiveMatch(entry[2], selected_types)))
    ELSE <<>>

\* StarryCore::filter_pokemon_exclusive
filter_pokemon_exclusive(data, selected_types) ==
    IF IsSome(data)
    THEN PokemonInfos(SelectSeq(Iter(Unwrap(data)),
                                LAMBDA entry : ExclusiveMatch(entry[2], selected_types)))
    ELSE <<>>

(***************************************************************************)
(* The generation and stats filters (core.rs:269-360).  pokemon_list is    *)
(* the list the caller produced before, selected_generations a set of      *)
(* strings.                                                                *)
(***************************************************************************)
\* Display for StarryPokemonGeneration: the localised text of the message
\* (starry_pokemon.rs:120-136), named here by its message id
generation_to_string(generation) ==
    CASE generation = "One" -> "gen-i"
      [] generation = "Two" -> "gen-ii"
      [] generation = "Three" -> "gen-iii"
      [] generation = "Four" -> "gen-iv"
      [] generation = "Five" -> "gen-v"
      [] generation = "Six" -> "gen-vi"
      [] generation = "Seven" -> "gen-vii"
      [] generation = "Eight" -> "gen-viii"
      [] generation = "Nine" -> "gen-ix"
      [] OTHER -> "unknown"

\* StarryPokemon::get_total_stats
get_total_stats(pokemon) ==
    pokemon.pokemon.stats.hp + pokemon.pokemon.stats.attack + pokemon.pokemon.stats.defense
        + pokemon.pokemon.stats.sp_attack + pokemon.pokemon.stats.sp_defense
        + pokemon.pokemon.stats.speed

\* a plausible slip: a record without species info counts as generation
\* Unknown
GenerationMatchUnknownDefault(data, pokemon_info, selected_generations) ==
    IF ~IsSome(data) THEN FALSE
    ELSE LET archived_pokemon == get_pokemon_by_id(data, pokemon_info.id) IN
         IF ~IsSome(archived_pokemon) THEN FALSE
         ELSE IF ~IsSome(Unwrap(archived_pokemon).specie)
              THEN generation_to_string("Unknown") \in selected_generations
         ELSE generation_to_string(Unwrap(Unwrap(archived_pokemon).specie).generation)
                 \in selected_generations

\* the closure of filter_pokemon_by_generation (core.rs:276-297)
GenerationMatch(data, pokemon_info, selected_generations) ==
    IF ~IsSome(data) THEN FALSE
    ELSE LET archived_pokemon == get_pokemon_by_id(data, pokemon_info.id) IN
         IF ~IsSome(archived_pokemon) THEN FALSE
         ELSE IF ~IsSome(Unwrap(archived_pokemon).specie) THEN FALSE
         ELSE generation_to_string(Unwrap(Unwrap(archived_pokemon).specie).generation)
                 \in selected_generations

\* the closure of filter_pokemon_stats_with_list (core.rs:310-326)
StatsMatch(data, pokemon_info, total_power) ==
    IF ~IsSome(data) THEN FALSE
    ELSE LET archived_pokemon == get_pokemon_by_id(data, pokemon_info.id) IN
         IF ~IsSome(archived_pokemon) THEN FALSE
         ELSE get_total_stats(Unwrap(archived_pokemon)) >= total_power

\* a plausible slip: the filter is evaluated against the whole snapshot
filter_pokemon_by_generation_all(data, pokemon_list, selected_generations) ==
    SelectSeq(get_pokemon_list(data),
              LAMBDA pokemon_info : GenerationMatch(data, pokemon_info, selected_generations))

\* StarryCore::filter_pokemon_by_generation
filter_pokemon_by_generation(data, pokemon_list, selected_generations) ==
    SelectSeq(pokemon_list,
              LAMBDA pokemon_info : GenerationMatch(data, pokemon_info, selected_generations))

\* a plausible slip: > in place of >=
filter_pokemon_stats_with_list_strict(data, pokemon_list, total_power) ==
    SelectSeq(pokemon_list,
              LAMBDA pokemon_info : StatsMatch(data, pokemon_info, total_power + 1))

\* StarryCore::filter_pokemon_stats_with_list
filter_pokemon_stats_with_list(data, pokemon_list, total_power) ==
    SelectSeq(pokemon_list, LAMBDA pokemon_info : StatsMatch(data, pokemon_info, total_power))

\* StarryCore::filter_pokemon_stats
filter_pokemon_stats(data, total_power) ==
    IF IsSome(data)
    THEN PokemonInfos(SelectSeq(Iter(Unwrap(data)),
                                LAMBDA entry : get_total_stats(entry[2]) >= total_power))
    ELSE <<>>

(***************************************************************************)
(* State.                                                                  *)
(***************************************************************************)
VARIABLES
    \* fetch_all_pokemon
    stage,          \* "list", "stream", "collected"
    all_entries,    \* the listing: a sequence of entities
    pc,             \* per entity: where its pipeline stands
    oc,             \* per entity: how its requests ended
    runs,           \* per entity: how many times its pipeline was started
    ret,            \* per entity: what its pipeline returned (None while running)
    permits,        \* free permits of the semaphore
    results,        \* the collected Vec, in completion order
    pokemon_map,    \* the BTreeMap returned (None before)
    \* a caller of the query layer
    q_data,         \* pokemon_data of the handle the caller queries
    q_call,         \* the last query: its name, arguments and result
    \* a caller of the evolution extraction
    e_input,        \* the argument the caller holds: a ChainLink or a detail list
    e_call,         \* the call made with it: its name and result
    \* the cache file and the process that builds and reads it
    cache_path,     \* the inode pokemon_cache.bin names, 0: no such file
    inodes,         \* per inode: the words of the file
    mmaps,          \* the mappings the process made: [ino, live]
    handles,        \* the StarryCore values returned: [_mmap, pokemon_data, clones]
    app_state,      \* "Loading", "Ready", "Error"
    app_core,       \* the handle in State::Ready, 0: none
    op,             \* the call in progress: "idle", "initialize", "refresh_data"
    spc,            \* where the call stands
    self,           \* the handle refresh_data was called on, 0: none
    inner,          \* the StarryCoreInner under construction
    fetched,        \* the collection fetch_all_pokemon returned to the call
    wbuf,           \* save_to_file: the bytes to write
    woff,           \* save_to_file: the words written so far
    wino,           \* save_to_file: the inode of the open file, 0: none
    kills,          \* process terminations so far
    \* download_all_pokemon_sprites and the sprite tree
    s_stage,        \* "off", "list", "stream", "returned", "panicked"
    s_entries,      \* the listing of the batch
    s_pc,           \* per entity: where its download stands
    s_permits,      \* free permits of the batch's semaphore
    s_dir,          \* resources/sprites exists
    s_files,        \* per entity: its sprite file: "none", "old", "new", "partial"
    s_calls,        \* per entity: the network requests made for it
    s_results,      \* per entity: the result of its download (None while running)
    s_ret,          \* what download_all_pokemon_sprites returned (None before)
    \* the cache directory across releases of the application
    u_version,      \* the format version of the running application
    u_files,        \* per file name: None, or the blob and the version that wrote it
    u_pc,           \* where initialize stands
    u_fetched,      \* the collection fetch_all_pokemon returned
    u_opened,       \* the blob the running application serves (None before)
    u_attempted,    \* the versions whose blobs load_from_file has mapped
    \* initialize calls running side by side
    b_state,        \* "Loading", "Ready", "Error"
    b_core,         \* the inode the core in State::Ready maps, 0: none
    b_path,         \* the inode pokemon_cache.bin names, 0: no such file
    b_inodes,       \* per inode: the words of the file
    b_tasks,        \* per task: [spc, ino, fetched, woff, wino]
    \* AppModel: the configuration and the fields of State::Ready
    a_state,        \* "Loading", "Ready", "Error"
    a_pending,      \* some initialize task was spawned whose CoreLoaded has not arrived
    a_config,       \* [pokemon_per_page, type_filtering_mode]
    a_data,         \* the snapshot the core in State::Ready reads (None before)
    a_list,         \* pokemon_list
    a_selected,     \* selected_pokemon
    a_search,       \* search
    a_filters,      \* filters: [selected_types, selected_generations, total_stats]
    a_page,         \* current_page
    a_msg           \* the message update handled last: "DetailsNext", "DetailsBack",
                    \* or "other" for every other message

fetchVars == <<stage, all_entries, pc, oc, runs, ret, permits, results, pokemon_map>>
queryVars == <<q_data, q_call, e_input, e_call>>
storeVars ==
    <<cache_path, inodes, mmaps, handles, app_state, app_core, op, spc, self, inner,
      fetched, wbuf, woff, wino, kills>>
spriteVars ==
    <<s_stage, s_entries, s_pc, s_permits, s_dir, s_files, s_calls, s_results, s_ret>>
upgradeVars == <<u_version, u_files, u_pc, u_fetched, u_opened, u_attempted>>
buildVars == <<b_state, b_core, b_path, b_inodes, b_tasks>>
appVars == <<a_state, a_pending, a_config, a_data, a_list, a_selected, a_search, a_filters,
            a_page, a_msg>>
otherVars == <<upgradeVars, buildVars, appVars>>
vars == <<fetchVars, queryVars, storeVars, spriteVars, otherVars>>

Entities == 1..NumEntities

FetchIdle ==
    /\ stage = "off"
    /\ all_entries = <<>>
    /\ pc = [e \in Entities |-> "queued"]
    /\ oc = [e \in Entities |-> NoRequests]
    /\ runs = [e \in Entities |-> 0]
    /\ ret = [e \in Entities |-> None]
    /\ permits = FetchWidth
    /\ results = <<>>
    /\ pokemon_map = None

ExtractIdle ==
    /\ e_input = [kind |-> "none"]
    /\ e_call = [op |-> "none"]

QueryIdle ==
    /\ q_data = None
    /\ q_call = [op |-> "none"]
    /\ ExtractIdle

SpriteIdle ==
    /\ s_stage = "off"
    /\ s_entries = <<>>
    /\ s_pc = [e \in Entities |-> "queued"]
    /\ s_permits = SpriteWidth
    /\ s_dir = FALSE
    /\ s_files = [e \in Entities |-> "none"]
    /\ s_calls = [e \in Entities |-> {}]
    /\ s_results = [e \in Entities |-> None]
    /\ s_ret = None

\* StarryCoreInner { _mmap: None, pokemon_data: None, .. } (core.rs:49-53)
NewInner == [_mmap |-> None, pokemon_data |-> None]

StoreIdle ==
    /\ cache_path = 0
    /\ inodes = <<>>
    /\ mmaps = <<>>
    /\ handles = <<>>
    /\ app_state = "Loading"
    /\ app_core = 0
    /\ op = "idle"
    /\ spc = "none"
    /\ self = 0
    /\ inner = NewInner
    /\ fetched = None
    /\ wbuf = <<>>
    /\ woff = 0
    /\ wino = 0
    /\ kills = 0

\* the format versions of the cache blob: the one core.rs reads and writes
\* and the one a release before it wrote
FormatVersions == {"previous", "current"}

\* the file name save_to_file and load_from_file join to the data directory
\* (core.rs:368, 390): the same literal whatever the layout compiled in
cache_file_name(version) == "pokemon_cache.bin"

FileNames == {cache_file_name(v) : v \in FormatVersions}

UpgradeIdle ==
    /\ u_version = "current"
    /\ u_files = [n \in FileNames |-> None]
    /\ u_pc = "off"
    /\ u_fetched = None
    /\ u_opened = None
    /\ u_attempted = {}

\* a task slot of the runtime with no initialize in it
NoTask == [spc |-> "none", ino |-> 0, fetched |-> None, woff |-> 0, wino |-> 0]

BuildIdle ==
    /\ b_state = "Loading"
    /\ b_core = 0
    /\ b_path = 0
    /\ b_inodes = <<>>
    /\ b_tasks = [t \in 1..MaxTasks |-> NoTask]

\* Filters::default() (filters.rs:14-22)
DefaultFilters ==
    [selected_types |-> {}, selected_generations |-> {}, total_stats |-> <<FALSE, 50>>]

\* StarryConfig::default(), with the page size scaled to the model
\* (config.rs:27-36, 74-79)
DefaultConfig == [pokemon_per_page |-> MaxPerPage, type_filtering_mode |-> "Exclusive"]

AppIdle ==
    /\ a_state = "Loading"
    /\ a_pending = FALSE
    /\ a_config = DefaultConfig
    /\ a_data = None
    /\ a_list = <<>>
    /\ a_selected = None
    /\ a_search = ""
    /\ a_filters = DefaultFilters
    /\ a_page = 0
    /\ a_msg = "other"

OtherIdle ==
    /\ UpgradeIdle
    /\ BuildIdle
    /\ AppIdle

FetchInit ==
    /\ SpriteIdle
    /\ OtherIdle
    /\ QueryIdle
    /\ StoreIdle
    /\ stage = "list"
    /\ all_entries = <<>>
    /\ pc = [e \in Entities |-> "queued"]
    /\ oc = [e \in Entities |-> NoRequests]
    /\ runs = [e \in Entities |-> 0]
    /\ ret = [e \in Entities |-> None]
    /\ permits = FetchWidth
    /\ results = <<>>
    /\ pokemon_map = None

\* a plausible slip: the stream runs over every entity, listed or not
ListedAll == Entities

\* the entries futures::stream::iter(all_entries) yields (core.rs:438)
Listed == {all_entries[i] : i \in 1..Len(all_entries)}
InBuffer == {e \in Listed : pc[e] \notin {"queued", "done"}}

\* get_all_entries(..).await.unwrap_or_default() (core.rs:432-434)
ListEntries ==
    /\ stage = "list"
    /\ \E r \in RequestOutcomes :
         all_entries' = IF r = "ok" THEN [i \in 1..NumEntities |-> i] ELSE <<>>
    /\ stage' = "stream"
    /\ UNCHANGED <<pc, oc, runs, ret, permits, results, pokemon_map>>
    /\ UNCHANGED <<queryVars, storeVars, spriteVars, otherVars>>

\* buffer_unordered(30) takes the next future of the stream and polls it
\* (core.rs:438-447)
PollNext(e) ==
    /\ stage = "stream"
    /\ e \in Listed
    /\ pc[e] = "queued"
    /\ \A i \in 1..Len(all_entries) :
         (\E j \in (i + 1)..Len(all_entries) : all_entries[j] = e)
            => pc[all_entries[i]] # "queued"
    /\ Cardinality(InBuffer) < FetchWidth
    /\ pc' = [pc EXCEPT ![e] = "acquire"]
    /\ runs' = [runs EXCEPT ![e] = @ + 1]
    /\ UNCHANGED <<stage, all_entries, oc, ret, permits, results, pokemon_map>>
    /\ UNCHANGED <<queryVars, storeVars, spriteVars, otherVars>>

\* a plausible slip: `let _ = sem.acquire().await`, the permit dropped at once
AcquireDropsPermit(e) ==
    /\ pc[e] = "acquire"
    /\ permits > 0
    /\ permits' = permits
    /\ pc' = [pc EXCEPT ![e] = "detail"]
    /\ UNCHANGED <<stage, all_entries, oc, runs, ret, results, pokemon_map>>
    /\ UNCHANGED <<queryVars, storeVars, spriteVars, otherVars>>

\* sem.acquire().await (core.rs:443)
Acquire(e) ==
    /\ pc[e] = "acquire"
    /\ permits > 0
    /\ permits' = permits - 1
    /\ pc' = [pc EXCEPT ![e] = "detail"]
    /\ UNCHANGED <<stage, all_entries, oc, runs, ret, results, pokemon_map>>
    /\ UNCHANGED <<queryVars, storeVars, spriteVars, otherVars>>

\* pokemon::get_by_name(name).await? (core.rs:463)
RequestDetail(e) ==
    /\ pc[e] = "detail"
    /\ \E r \in RequestOutcomes :
         /\ oc' = [oc EXCEPT ![e].detail = r]
         /\ pc' = [pc EXCEPT ![e] = IF r = "ok" THEN "encounter" ELSE "return"]
    /\ UNCHANGED <<stage, all_entries, runs, ret, permits, results, pokemon_map>>
    /\ UNCHANGED <<queryVars, storeVars, spriteVars, otherVars>>

\* encounters::get_by_id(pokemon.id).await? (core.rs:465-466)
RequestEncounter(e) ==
    /\ pc[e] = "encounter"
    /\ \E r \in RequestOutcomes :
         /\ oc' = [oc EXCEPT ![e].encounter = r]
         /\ pc' = [pc EXCEPT ![e] = IF r = "ok" THEN "species" ELSE "return"]
    /\ UNCHANGED <<stage, all_entries, runs, ret, permits, results, pokemon_map>>
    /\ UNCHANGED <<queryVars, storeVars, spriteVars, otherVars>>

\* pokemon_species::get_by_name(name).await, and the chain id (core.rs:468-489)
RequestSpecies(e) ==
    /\ pc[e] = "species"
    /\ \E r \in RequestOutcomes :
         /\ oc' = [oc EXCEPT ![e].species = r]
         /\ pc' = [pc EXCEPT ![e] = IF r = "ok" /\ EvolutionChainId(e).ok
                                   THEN "evolution" ELSE "return"]
    /\ UNCHANGED <<stage, all_entries, runs, ret, permits, results, pokemon_map>>
    /\ UNCHANGED <<queryVars, storeVars, spriteVars, otherVars>>

\* evolution_chain::get_by_id(id).await (core.rs:491-493)
RequestEvolution(e) ==
    /\ pc[e] = "evolution"
    /\ \E r \in RequestOutcomes : oc' = [oc EXCEPT ![e].evolution = r]
    /\ pc' = [pc EXCEPT ![e] = "return"]
    /\ UNCHANGED <<stage, all_entries, runs, ret, permits, results, pokemon_map>>
    /\ UNCHANGED <<queryVars, storeVars, spriteVars, otherVars>>

\* a plausible slip: the permit is forgotten (SemaphorePermit::forget) and
\* never goes back to the semaphore
ReturnKeepsPermit(e) ==
    /\ pc[e] = "return"
    /\ LET r == fetch_pokemon_details(e, oc[e]) IN
         /\ ret' = [ret EXCEPT ![e] = Some(r)]
         /\ results' = Append(results, r)
    /\ permits' = permits
    /\ pc' = [pc EXCEPT ![e] = "done"]
    /\ UNCHANGED <<stage, all_entries, oc, runs, pokemon_map>>
    /\ UNCHANGED <<queryVars, storeVars, spriteVars, otherVars>>

\* the pipeline returns: its permit is dropped and buffer_unordered yields
\* its output to collect() (core.rs:442-451)
Return(e) ==
    /\ pc[e] = "return"
    /\ LET r == fetch_pokemon_details(e, oc[e]) IN
         /\ ret' = [ret EXCEPT ![e] = Some(r)]
         /\ results' = Append(results, r)
    /\ permits' = permits + 1
    /\ pc' = [pc EXCEPT ![e] = "done"]
    /\ UNCHANGED <<stage, all_entries, oc, runs, pokemon_map>>
    /\ UNCHANGED <<queryVars, storeVars, spriteVars, otherVars>>

\* the stream is exhausted: filter_map(Result::ok), key by id, collect
\* (core.rs:449-455)
Collect ==
    /\ stage = "stream"
    /\ \A e \in Listed : pc[e] = "done"
    /\ pokemon_map' = Some(CollectPokemonMap(results))
    /\ stage' = "collected"
    /\ UNCHANGED <<all_entries, pc, oc, runs, ret, permits, results>>
    /\ UNCHANGED <<queryVars, storeVars, spriteVars, otherVars>>

FetchNext ==
    \/ ListEntries
    \/ \E e \in Entities : PollNext(e)
    \/ \E e \in Entities : Acquire(e)
    \/ \E e \in Entities : RequestDetail(e)
    \/ \E e \in Entities : RequestEncounter(e)
    \/ \E e \in Entities : RequestSpecies(e)
    \/ \E e \in Entities : RequestEvolution(e)
    \/ \E e \in Entities : Return(e)
    \/ Collect

SpecFetch == FetchInit /\ [][FetchNext]_vars

\* SpecFetch when every request made gets its answer (ok or err) and the
\* runtime polls a future that can make progress: the run does not stop
\* while one of its steps can be taken
FetchFairness == WF_fetchVars(FetchNext)

SpecFetchLive == FetchInit /\ [][FetchNext]_vars /\ FetchFairness

(***************************************************************************)
(* SpecQuery: a caller holds a handle over a snapshot that a population    *)
(* run produced and save_to_file / load_from_file carried through the      *)
(* cache file, or a handle without data, and calls the queries.            *)
(***************************************************************************)
\* the ways one pipeline can end
PipelineOutcomes(e) ==
    {[NoRequests EXCEPT !.detail = "err"],
     [NoRequests EXCEPT !.detail = "ok", !.encounter = "err"],
     [NoRequests EXCEPT !.detail = "ok", !.encounter = "ok", !.species = "err"]}
    \cup {[detail |-> "ok", encounter |-> "ok", species |-> "ok", evolution |-> r] :
             r \in IF EvolutionChainId(e).ok THEN RequestOutcomes ELSE {"none"}}

\* the orders in which the pipelines of a set of entities can complete
CompletionOrders(S) ==
    {f \in [1..Cardinality(S) -> S] : \A i, j \in 1..Cardinality(S) : f[i] = f[j] => i = j}

\* every collection fetch_all_pokemon can return for the entities 1..n
FetchResults(n) ==
    {CollectPokemonMap(<<>>)}
    \cup {CollectPokemonMap([i \in 1..n |-> fetch_pokemon_details(ord[i], o[ord[i]])]) :
             ord \in CompletionOrders(1..n),
             o \in {f \in [1..n -> UNION {PipelineOutcomes(e) : e \in 1..n}] :
                       \A e \in 1..n : f[e] \in PipelineOutcomes(e)}}

QueryInit ==
    /\ SpriteIdle
    /\ OtherIdle
    /\ FetchIdle
    /\ StoreIdle
    /\ ExtractIdle
    /\ q_data \in {None} \cup {Some(access(to_bytes(m)).val) : m \in FetchResults(NumEntities)}
    /\ q_call = [op |-> "none"]

GetPokemonPage ==
    /\ \E offset \in 0..MaxOffset, limit \in 0..MaxLimit :
         q_call' = [op |-> "get_pokemon_page", offset |-> offset, limit |-> limit,
                    panicked |-> get_pokemon_page_panics(q_data, offset, limit),
                    result |-> get_pokemon_page(q_data, offset, limit)]
    /\ UNCHANGED <<q_data, e_input, e_call, fetchVars, storeVars, spriteVars, otherVars>>

GetPokemonById ==
    /\ \E id \in 0..MaxLookupId :
         q_call' = [op |-> "get_pokemon_by_id", id |-> id,
                    result |-> get_pokemon_by_id(q_data, id)]
    /\ UNCHANGED <<q_data, e_input, e_call, fetchVars, storeVars, spriteVars, otherVars>>

\* the queries a caller types
SearchQueries == {"", "char", "CHAR", "saur", "Saur", "irt", "z"}

SearchPokemon ==
    /\ \E query \in SearchQueries :
         q_call' = [op |-> "search_pokemon", query |-> query,
                    result |-> search_pokemon(q_data, query)]
    /\ UNCHANGED <<q_data, e_input, e_call, fetchVars, storeVars, spriteVars, otherVars>>

\* the thresholds a caller offers
SelectableTotals == {0, 309, 310, 314, 318, 319, 405, 406}

QueryPokemonStats ==
    /\ \E total_power \in SelectableTotals :
         q_call' = [op |-> "filter_pokemon_stats", total_power |-> total_power,
                    result |-> filter_pokemon_stats(q_data, total_power)]
    /\ UNCHANGED <<q_data, e_input, e_call, fetchVars, storeVars, spriteVars, otherVars>>

\* the strings a caller offers as selected types
SelectableTypes == {"grass", "poison", "fire", "Fire"}

FilterPokemonInclusive ==
    /\ \E selected_types \in SUBSET SelectableTypes :
         q_call' = [op |-> "filter_pokemon_inclusive", selected_types |-> selected_types,
                    result |-> filter_pokemon_inclusive(q_data, selected_types)]
    /\ UNCHANGED <<q_data, e_input, e_call, fetchVars, storeVars, spriteVars, otherVars>>

FilterPokemonExclusive ==
    /\ \E selected_types \in SUBSET SelectableTypes :
         q_call' = [op |-> "filter_pokemon_exclusive", selected_types |-> selected_types,
                    result |-> filter_pokemon_exclusive(q_data, selected_types)]
    /\ UNCHANGED <<q_data, e_input, e_call, fetchVars, storeVars, spriteVars, otherVars>>

GetPokemonList ==
    /\ q_call' = [op |-> "get_pokemon_list", result |-> get_pokemon_list(q_data)]
    /\ UNCHANGED <<q_data, e_input, e_call, fetchVars, storeVars, spriteVars, otherVars>>

QueryNext ==
    \/ GetPokemonList
    \/ QueryPokemonStats
    \/ GetPokemonPage
    \/ GetPokemonById
    \/ FilterPokemonInclusive
    \/ FilterPokemonExclusive
    \/ SearchPokemon

SpecQuery == QueryInit /\ [][QueryNext]_vars

(***************************************************************************)
(* SpecFilter: a caller holds a handle as in SpecQuery and calls the        *)
(* filters that take a list the caller produced before.                    *)
(***************************************************************************)
\* a PokemonInfo whose id is no key of any snapshot (a list kept from an
\* earlier snapshot)
StaleInfo == [id |-> 3, name |-> "venusaur", sprite_path |-> None]

Reverse(seq) == [i \in 1..Len(seq) |-> seq[Len(seq) + 1 - i]]

\* the subsequences of seq
SubSeqs(seq) ==
    {LET idx == SelectSeq([i \in 1..Len(seq) |-> i], LAMBDA i : mask[i])
     IN  [j \in 1..Len(idx) |-> seq[idx[j]]] : mask \in [1..Len(seq) -> BOOLEAN]}

\* the lists a caller passes: parts of the listing, in its order or
\* reversed, with or without a stale entry
PokemonLists(data) ==
    SubSeqs(Append(get_pokemon_list(data), StaleInfo))
        \cup SubSeqs(Reverse(Append(get_pokemon_list(data), StaleInfo)))

\* the strings a caller offers as selected generations
SelectableGenerations == {"gen-i", "gen-ii", "One", "unknown"}

FilterInit ==
    /\ SpriteIdle
    /\ OtherIdle
    /\ FetchIdle
    /\ StoreIdle
    /\ ExtractIdle
    /\ q_data \in {None} \cup {Some(access(to_bytes(m)).val) : m \in FetchResults(NumEntities)}
    /\ q_call = [op |-> "none"]

FilterPokemonByGeneration ==
    /\ q_call.op = "none"
    /\ \E pokemon_list \in PokemonLists(q_data),
          selected_generations \in SUBSET SelectableGenerations :
         q_call' = [op |-> "filter_pokemon_by_generation", pokemon_list |-> pokemon_list,
                    selected_generations |-> selected_generations,
                    result |-> filter_pokemon_by_generation(q_data, pokemon_list,
                                                            selected_generations)]
    /\ UNCHANGED <<q_data, e_input, e_call, fetchVars, storeVars, spriteVars, otherVars>>

FilterPokemonStatsWithList ==
    /\ q_call.op = "none"
    /\ \E pokemon_list \in PokemonLists(q_data), total_power \in SelectableTotals :
         q_call' = [op |-> "filter_pokemon_stats_with_list", pokemon_list |-> pokemon_list,
                    total_power |-> total_power,
                    result |-> filter_pokemon_stats_with_list(q_data, pokemon_list,
                                                              total_power)]
    /\ UNCHANGED <<q_data, e_input, e_call, fetchVars, storeVars, spriteVars, otherVars>>

FilterPokemonStats ==
    /\ q_call.op = "none"
    /\ \E total_power \in SelectableTotals :
         q_call' = [op |-> "filter_pokemon_stats", total_power |-> total_power,
                    result |-> filter_pokemon_stats(q_data, total_power)]
    /\ UNCHANGED <<q_data, e_input, e_call, fetchVars, storeVars, spriteVars, otherVars>>

\* the caller takes the result and is ready for its next call
FilterReturn ==
    /\ q_call.op # "none"
    /\ q_call' = [op |-> "none"]
    /\ UNCHANGED <<q_data, e_input, e_call, fetchVars, storeVars, spriteVars, otherVars>>

FilterNext ==
    \/ FilterPokemonByGeneration
    \/ FilterPokemonStatsWithList
    \/ FilterPokemonStats
    \/ FilterReturn

SpecFilter == FilterInit /\ [][FilterNext]_vars

(***************************************************************************)
(* SpecExtract: a caller holds an evolution chain of the service, or the   *)
(* detail list of one edge, and calls the extraction on it.                *)
(***************************************************************************)
\* the species names of the nodes 1, 2, ..
NodeNames == <<"bulbasaur", "ivysaur", "venusaur", "charmander", "charmeleon", "charizard">>

\* the detail lists on the edges of the chains
EdgeDetails ==
    {<<>>,
     << [NoDetail EXCEPT !.min_level = Some(16)] >>,
     << [NoDetail EXCEPT !.min_level = Some(36)] >>,
     << [NoDetail EXCEPT !.item = Some("fire-stone")],
        [NoDetail EXCEPT !.min_level = Some(36)] >>}
\* the detail lists on the root of a chain
RootDetails == {<<>>, << [NoDetail EXCEPT !.min_level = Some(16)] >>}

\* the trees on the nodes 1..n: every node but node 1 has a parent with a
\* smaller number, and the children of a node are ordered by number
Parents(n) == {p \in [2..n -> 1..n] : \A k \in 2..n : p[k] < k}

\* the ChainLink of node i of the tree
RECURSIVE BuildChain(_, _, _, _)
BuildChain(n, parent, details, i) ==
    LET kids == SelectSeq([k \in 1..n |-> k], LAMBDA k : k > 1 /\ parent[k] = i)
    IN  [species |-> [name |-> NodeNames[i], id |-> i],
         evolution_details |-> details[i],
         evolves_to |-> [j \in 1..Len(kids) |-> BuildChain(n, parent, details, kids[j])]]

\* the chains of n nodes a caller holds
ChainInputsOf(n) ==
    {[kind |-> "chain_link", n |-> n, parent |-> parent, details |-> details,
      chain_link |-> BuildChain(n, parent, details, 1)] :
        parent \in Parents(n),
        details \in {d \in [1..n -> EdgeDetails \cup RootDetails] :
                        /\ d[1] \in RootDetails
                        /\ \A k \in 2..n : d[k] \in EdgeDetails}}
ChainInputs == UNION {ChainInputsOf(n) : n \in 1..MaxNodes}

\* the detail records the service can put first on an edge: every
\* combination of the conditions the extraction reads, a comparison value
\* outside 1, -1, 0 included
FirstDetails ==
    [min_level : {None, Some(16)},
     item : {None, Some("fire-stone")},
     held_item : {None, Some("metal-coat")},
     min_happiness : {None, Some(220)},
     time_of_day : {"", "night"},
     location : {None, Some("mt-coronet")},
     known_move : {None, Some("ancient-power")},
     relative_physical_stats : {None, Some(1), Some(0 - 1), Some(0), Some(2)}]
\* the detail records that follow the first
LaterDetails ==
    {NoDetail, [NoDetail EXCEPT !.min_level = Some(36)],
     [NoDetail EXCEPT !.item = Some("fire-stone")]}
\* the sequences over S of length at most n
SeqsUpTo(S, n) == UNION {[1..k -> S] : k \in 0..n}
\* the detail lists a caller holds
DetailInputs ==
    {[kind |-> "evolution_details", evolution_details |-> <<>>]}
    \cup {[kind |-> "evolution_details", evolution_details |-> <<first>> \o later] :
             first \in FirstDetails, later \in SeqsUpTo(LaterDetails, MaxDetails - 1)}

ExtractInit ==
    /\ SpriteIdle
    /\ OtherIdle
    /\ FetchIdle
    /\ StoreIdle
    /\ q_data = None
    /\ q_call = [op |-> "none"]
    /\ e_input \in ChainInputs \cup DetailInputs
    /\ e_call = [op |-> "none"]

ExtractEvolutionData ==
    /\ e_input.kind = "chain_link"
    /\ e_call.op = "none"
    /\ e_call' = [op |-> "extract_evolution_data_from_chain_link",
                  result |-> extract_evolution_data_from_chain_link(e_input.chain_link)]
    /\ UNCHANGED <<q_data, q_call, e_input, fetchVars, storeVars, spriteVars, otherVars>>

ExtractEvolutionRequirement ==
    /\ e_input.kind = "evolution_details"
    /\ e_call.op = "none"
    /\ e_call' = [op |-> "extract_evolution_requirement",
                  result |-> extract_evolution_requirement(e_input.evolution_details)]
    /\ UNCHANGED <<q_data, q_call, e_input, fetchVars, storeVars, spriteVars, otherVars>>

ExtractNext ==
    \/ ExtractEvolutionData
    \/ ExtractEvolutionRequirement

SpecExtract == ExtractInit /\ [][ExtractNext]_vars

(***************************************************************************)
(* SpecDetails: one call of fetch_pokemon_details (core.rs:459-602), one   *)
(* step per request, for a species response whose evolution_chain          *)
(* reference is drawn from the forms a URL can take.  e_call holds where   *)
(* the call stands, how each request ended and the chain id requested.     *)
(***************************************************************************)
\* the references a species response can carry
ChainUrls ==
    {ChainUrl(seg) : seg \in {"1", "2", "0", "x", "01", "00", "-1", "+2", ""}}
    \cup {<<"https:", "", "pokeapi.co", "api", "v2", "evolution-chain", "1">>,
          <<"https:", "", "pokeapi.co", "api", "v2", "evolution-chain", "2", "", "">>,
          <<"https:", "", "pokeapi.co", "api", "v2", "evolution-chain", "0">>,
          <<"">>, <<"", "">>}
DetailsInputs ==
    {[kind |-> "pokemon", e |-> e, evolution_chain |-> u] :
        e \in Entities, u \in {None} \cup {Some(url) : url \in ChainUrls}}

DetailsInit ==
    /\ SpriteIdle
    /\ OtherIdle
    /\ FetchIdle
    /\ StoreIdle
    /\ q_data = None
    /\ q_call = [op |-> "none"]
    /\ e_input \in DetailsInputs
    /\ e_call = [op |-> "none"]

\* pokemon::get_by_name(name).await? (core.rs:463)
DetailsGetByName ==
    /\ e_input.kind = "pokemon"
    /\ e_call.op = "none"
    /\ \E r \in RequestOutcomes :
         e_call' = [op |-> "fetch_pokemon_details",
                    pc |-> IF r = "ok" THEN "encounter" ELSE "return",
                    oc |-> [NoRequests EXCEPT !.detail = r],
                    requested |-> None,
                    result |-> None]
    /\ UNCHANGED <<q_data, q_call, e_input, fetchVars, storeVars, spriteVars, otherVars>>

\* encounters::get_by_id(pokemon.id).await? (core.rs:465-466)
DetailsEncounters ==
    /\ e_call.op = "fetch_pokemon_details"
    /\ e_call.pc = "encounter"
    /\ \E r \in RequestOutcomes :
         e_call' = [e_call EXCEPT !.oc.encounter = r,
                                  !.pc = IF r = "ok" THEN "species" ELSE "return"]
    /\ UNCHANGED <<q_data, q_call, e_input, fetchVars, storeVars, spriteVars, otherVars>>

\* pokemon_species::get_by_name(name).await, and the chain id read from the
\* response (core.rs:468-489)
DetailsSpecies ==
    /\ e_call.op = "fetch_pokemon_details"
    /\ e_call.pc = "species"
    /\ \E r \in RequestOutcomes :
         e_call' = [e_call EXCEPT
                      !.oc.species = r,
                      !.pc = IF r = "ok" /\ evolution_chain_id(e_input.evolution_chain).ok
                             THEN "evolution" ELSE "return"]
    /\ UNCHANGED <<q_data, q_call, e_input, fetchVars, storeVars, spriteVars, otherVars>>

\* evolution_chain::get_by_id(id).await (core.rs:491-493): the service
\* answers for a chain it knows, and fails for any other id
DetailsEvolutionChain ==
    /\ e_call.op = "fetch_pokemon_details"
    /\ e_call.pc = "evolution"
    /\ LET id == evolution_chain_id(e_input.evolution_chain).val IN
       \E r \in IF id \in DOMAIN ApiChainTable THEN RequestOutcomes ELSE {"err"} :
         e_call' = [e_call EXCEPT !.oc.evolution = r,
                                  !.requested = Some(id),
                                  !.pc = "return"]
    /\ UNCHANGED <<q_data, q_call, e_input, fetchVars, storeVars, spriteVars, otherVars>>

\* the record is built and returned (core.rs:500-601)
DetailsReturn ==
    /\ e_call.op = "fetch_pokemon_details"
    /\ e_call.pc = "return"
    /\ e_call' = [e_call EXCEPT
                    !.result = Some(fetch_pokemon_details_from(
                                        e_input.e, e_input.evolution_chain, e_call.oc)),
                    !.pc = "done"]
    /\ UNCHANGED <<q_data, q_call, e_input, fetchVars, storeVars, spriteVars, otherVars>>

DetailsNext ==
    \/ DetailsGetByName
    \/ DetailsEncounters
    \/ DetailsSpecies
    \/ DetailsEvolutionChain
    \/ DetailsReturn

SpecDetails == DetailsInit /\ [][DetailsNext]_vars

(***************************************************************************)
(* SpecSprites: one call of download_all_pokemon_sprites (core.rs:605-642) *)
(* over a sprite tree that may already hold files, one step per await of a *)
(* download (core.rs:621-630, 646-684).                                    *)
(***************************************************************************)
\* the sprite trees a batch can find: a file only for an entity that has a
\* sprite, and only inside an existing resources/sprites directory
SpriteTrees ==
    {t \in [dir : BOOLEAN, files : [Entities -> {"none", "old"}]] :
        \A e \in Entities : t.files[e] = "old" => (t.dir /\ ApiFrontDefault(e))}

SpritesInit ==
    /\ OtherIdle
    /\ FetchIdle
    /\ QueryIdle
    /\ StoreIdle
    /\ s_stage = "list"
    /\ s_entries = <<>>
    /\ s_pc = [e \in Entities |-> "queued"]
    /\ s_permits = SpriteWidth
    /\ \E t \in SpriteTrees : s_dir = t.dir /\ s_files = t.files
    /\ s_calls = [e \in Entities |-> {}]
    /\ s_results = [e \in Entities |-> None]
    /\ s_ret = None

SpriteListed == {s_entries[i] : i \in 1..Len(s_entries)}
\* the downloads buffer_unordered(20) holds
SpriteInBuffer == {e \in SpriteListed : s_pc[e] \notin {"queued", "done"}}
\* the downloads that hold a permit
SpriteInFlight == {e \in SpriteListed : s_pc[e] \notin {"queued", "acquire", "done"}}

\* get_all_entries(..).await.unwrap_or_default() and the build of the
\* reqwest client, whose error is returned (core.rs:606-612)
SpriteListEntries ==
    /\ s_stage = "list"
    /\ \E r \in RequestOutcomes, built \in BOOLEAN :
         /\ s_entries' = IF r = "ok" THEN [i \in 1..NumEntities |-> i] ELSE <<>>
         /\ IF built
            THEN s_stage' = "stream" /\ s_ret' = s_ret
            ELSE s_stage' = "returned" /\ s_ret' = Some(Err)
    /\ UNCHANGED <<s_pc, s_permits, s_dir, s_files, s_calls, s_results>>
    /\ UNCHANGED <<fetchVars, queryVars, storeVars, otherVars>>

\* buffer_unordered(20) takes the next future of the stream (core.rs:616-631)
SpritePollNext(e) ==
    /\ s_stage = "stream"
    /\ e \in SpriteListed
    /\ s_pc[e] = "queued"
    /\ \A i \in 1..Len(s_entries) :
         (\E j \in (i + 1)..Len(s_entries) : s_entries[j] = e)
            => s_pc[s_entries[i]] # "queued"
    /\ Cardinality(SpriteInBuffer) < SpriteWidth
    /\ s_pc' = [s_pc EXCEPT ![e] = "acquire"]
    /\ UNCHANGED <<s_stage, s_entries, s_permits, s_dir, s_files, s_calls, s_results, s_ret>>
    /\ UNCHANGED <<fetchVars, queryVars, storeVars, otherVars>>

\* a slip: the permit is taken from the semaphore of the data fetch
SpriteAcquireFromFetch(e) ==
    /\ s_stage = "stream"
    /\ s_pc[e] = "acquire"
    /\ permits > 0
    /\ permits' = permits - 1
    /\ s_pc' = [s_pc EXCEPT ![e] = "detail"]
    /\ UNCHANGED <<s_stage, s_entries, s_permits, s_dir, s_files, s_calls, s_results, s_ret>>
    /\ UNCHANGED <<stage, all_entries, pc, oc, runs, ret, results, pokemon_map>>
    /\ UNCHANGED <<queryVars, storeVars, otherVars>>

\* semaphore.acquire().await (core.rs:621)
SpriteAcquire(e) ==
    /\ s_stage = "stream"
    /\ s_pc[e] = "acquire"
    /\ s_permits > 0
    /\ s_permits' = s_permits - 1
    /\ s_pc' = [s_pc EXCEPT ![e] = "detail"]
    /\ UNCHANGED <<s_stage, s_entries, s_dir, s_files, s_calls, s_results, s_ret>>
    /\ UNCHANGED <<fetchVars, queryVars, storeVars, otherVars>>

\* pokemon::get_by_name(&entry.name).await? and the test of front_default
\* (core.rs:622-628): the request is made for every entity; an entity
\* without a sprite is done with Ok(())
SpriteGetByName(e) ==
    /\ s_stage = "stream"
    /\ s_pc[e] = "detail"
    /\ s_calls' = [s_calls EXCEPT ![e] = @ \cup {"detail"}]
    /\ \E r \in RequestOutcomes :
         IF r = "err"
         THEN /\ s_results' = [s_results EXCEPT ![e] = Some(Err)]
              /\ s_pc' = [s_pc EXCEPT ![e] = "done"]
              /\ s_permits' = s_permits + 1
         ELSE IF ApiFrontDefault(e)
         THEN /\ s_pc' = [s_pc EXCEPT ![e] = "download_image"]
              /\ UNCHANGED <<s_results, s_permits>>
         ELSE /\ s_results' = [s_results EXCEPT ![e] = Some(Ok("none"))]
              /\ s_pc' = [s_pc EXCEPT ![e] = "done"]
              /\ s_permits' = s_permits + 1
    /\ UNCHANGED <<s_stage, s_entries, s_dir, s_files, s_ret>>
    /\ UNCHANGED <<fetchVars, queryVars, storeVars, otherVars>>

\* download_image up to the test of the file (core.rs:651-667): the
\* resources directory is created when missing, a failure of that panics
\* (expect) and unwinds the whole batch; an existing file ends the download
\* with Ok(())
DownloadImageCheck(e) ==
    /\ s_stage = "stream"
    /\ s_pc[e] = "download_image"
    /\ \E created \in BOOLEAN :
         IF ~s_dir /\ ~created
         THEN /\ s_stage' = "panicked"
              /\ UNCHANGED <<s_pc, s_permits, s_dir, s_results>>
         ELSE /\ s_dir' = TRUE
              /\ s_stage' = s_stage
              /\ IF s_files[e] # "none"
                 THEN /\ s_results' = [s_results EXCEPT ![e] = Some(Ok("skipped"))]
                      /\ s_pc' = [s_pc EXCEPT ![e] = "done"]
                      /\ s_permits' = s_permits + 1
                 ELSE /\ s_pc' = [s_pc EXCEPT ![e] = "get"]
                      /\ UNCHANGED <<s_results, s_permits>>
    /\ UNCHANGED <<s_entries, s_files, s_calls, s_ret>>
    /\ UNCHANGED <<fetchVars, queryVars, storeVars, otherVars>>

\* client.get(&image_url).send().await?, the status, response.bytes().await?
\* (core.rs:669-671, 677-682)
DownloadImageGet(e) ==
    /\ s_stage = "stream"
    /\ s_pc[e] = "get"
    /\ s_calls' = [s_calls EXCEPT ![e] = @ \cup {"image"}]
    /\ \E r \in RequestOutcomes :
         IF r = "err"
         THEN /\ s_results' = [s_results EXCEPT ![e] = Some(Err)]
              /\ s_pc' = [s_pc EXCEPT ![e] = "done"]
              /\ s_permits' = s_permits + 1
         ELSE /\ s_pc' = [s_pc EXCEPT ![e] = "write"]
              /\ UNCHANGED <<s_results, s_permits>>
    /\ UNCHANGED <<s_stage, s_entries, s_dir, s_files, s_ret>>
    /\ UNCHANGED <<fetchVars, queryVars, storeVars, otherVars>>

\* create_dir_all(parent).await?, fs::write(&image_path, &bytes).await?
\* (core.rs:672-676): a failed write leaves the file it created
DownloadImageWrite(e) ==
    /\ s_stage = "stream"
    /\ s_pc[e] = "write"
    /\ \E r \in {"ok", "err_create_dir", "err_write"} :
         /\ s_files' = [s_files EXCEPT ![e] = CASE r = "ok" -> "new"
                                                [] r = "err_write" -> "partial"
                                                [] OTHER -> @]
         /\ s_results' = [s_results EXCEPT ![e] = IF r = "ok" THEN Some(Ok("written"))
                                                  ELSE Some(Err)]
    /\ s_pc' = [s_pc EXCEPT ![e] = "done"]
    /\ s_permits' = s_permits + 1
    /\ UNCHANGED <<s_stage, s_entries, s_dir, s_calls, s_ret>>
    /\ UNCHANGED <<fetchVars, queryVars, storeVars, otherVars>>

\* the stream is exhausted: the errors are printed and Ok(()) is returned
\* (core.rs:631-641)
SpriteCollect ==
    /\ s_stage = "stream"
    /\ \A e \in SpriteListed : s_pc[e] = "done"
    /\ s_stage' = "returned"
    /\ s_ret' = Some(Ok("unit"))
    /\ UNCHANGED <<s_entries, s_pc, s_permits, s_dir, s_files, s_calls, s_results>>
    /\ UNCHANGED <<fetchVars, queryVars, storeVars, otherVars>>

SpritesNext ==
    \/ SpriteListEntries
    \/ \E e \in Entities : SpritePollNext(e)
    \/ \E e \in Entities : SpriteAcquire(e)
    \/ \E e \in Entities : SpriteGetByName(e)
    \/ \E e \in Entities : DownloadImageCheck(e)
    \/ \E e \in Entities : DownloadImageGet(e)
    \/ \E e \in Entities : DownloadImageWrite(e)
    \/ SpriteCollect

SpecSprites == SpritesInit /\ [][SpritesNext]_vars

(***************************************************************************)
(* SpecStore: the cache file, the calls that write and map it, the handles *)
(* they return.  One call runs at a time; the process can be terminated at *)
(* any step and is then started again.                                     *)
(***************************************************************************)
\* the collections fetch_all_pokemon hands to save_to_file here: those of
\* the entities 1..StoreEntities when each pipeline either fails at its
\* first request or completes every request
StoreOutcomes(e) ==
    {[NoRequests EXCEPT !.detail = "err"],
     [detail |-> "ok", encounter |-> "ok", species |-> "ok",
      evolution |-> IF EvolutionChainId(e).ok THEN "ok" ELSE "none"]}
StoreFetchResults ==
    {CollectPokemonMap([e \in 1..StoreEntities |-> fetch_pokemon_details(e, o[e])]) :
        o \in {f \in [1..StoreEntities -> UNION {StoreOutcomes(e) : e \in 1..StoreEntities}] :
                  \A e \in 1..StoreEntities : f[e] \in StoreOutcomes(e)}}

\* Arc::strong_count of a returned handle: the clones callers hold and the
\* one in State::Ready
StrongCount(hs, core, h) == hs[h].clones + (IF core = h THEN 1 ELSE 0)

\* a mapping is owned by the inner under construction or by a handle that
\* is still referenced; Mmap::drop unmaps a mapping nobody owns
Owned(m, hs, core, in) ==
    \/ in._mmap = Some(m)
    \/ \E h \in 1..Len(hs) : hs[h]._mmap = Some(m) /\ StrongCount(hs, core, h) > 0
Unmapped == [ino |-> 0, live |-> FALSE]
Reap(ms, hs, core, in) ==
    [m \in 1..Len(ms) |-> IF ms[m].live /\ Owned(m, hs, core, in) THEN ms[m] ELSE Unmapped]

\* Arc<StarryCoreInner>: the inner is freed when the last reference goes
Dropped == [_mmap |-> None, pokemon_data |-> None, clones |-> 0]
ReapHandles(hs, core) ==
    [h \in 1..Len(hs) |-> IF StrongCount(hs, core, h) > 0 THEN hs[h] ELSE Dropped]

\* the file system frees a file that has no name and no mapping
FreeInodes(files, path, ms) ==
    [i \in 1..Len(files) |->
        IF i = path \/ \E m \in 1..Len(ms) : ms[m].live /\ ms[m].ino = i
        THEN files[i] ELSE <<>>]

\* a plausible slip: the view is stored, the mapping is not
AttachViewOnly(in, m) == [in EXCEPT !.pokemon_data = Some(m)]

\* inner._mmap = Some(mmap); inner.pokemon_data = Some(static_data)
\* (core.rs:68-69, 107-108)
Attach(in, m) == [in EXCEPT !._mmap = Some(m), !.pokemon_data = Some(m)]

\* a plausible slip: the file is mapped and returned without validation
load_from_file_unchecked(path, files) == IF path = 0 THEN Err ELSE Ok(path)

\* StarryCore::load_from_file (core.rs:386-400): Ok(the inode mapped) or Err
load_from_file(path, files) ==
    IF path = 0 THEN Err
    ELSE IF access(files[path]).ok THEN Ok(path) ELSE Err

\* a plausible slip: OpenOptions without truncate(true)
open_keep(content) == content

\* OpenOptions::new().write(true).create(true).truncate(true).open(..) on an
\* existing file (core.rs:373-377)
open_truncate(content) == <<>>

\* write(2) of chunk at offset off of a file (a gap reads as zeros)
WriteAt(content, off, chunk) ==
    [i \in 1..(IF Len(content) > off + Len(chunk) THEN Len(content) ELSE off + Len(chunk)) |->
        IF i > off /\ i <= off + Len(chunk) THEN chunk[i - off]
        ELSE IF i <= Len(content) THEN content[i]
        ELSE 0]

StoreInit ==
    /\ SpriteIdle
    /\ OtherIdle
    /\ FetchIdle
    /\ QueryIdle
    /\ cache_path = 0
    /\ inodes = <<>>
    /\ mmaps = <<>>
    /\ handles = <<>>
    /\ app_state = "Loading"
    /\ app_core = 0
    /\ op = "initialize"
    /\ spc = "load_from_file"
    /\ self = 0
    /\ inner = NewInner
    /\ fetched = None
    /\ wbuf = <<>>
    /\ woff = 0
    /\ wino = 0
    /\ kills = 0

\* a slip: initialize goes to the rebuild whatever load_from_file returned
InitializeLoadRebuilds ==
    /\ spc = "load_from_file"
    /\ spc' = "fetch_all_pokemon"
    /\ UNCHANGED <<cache_path, inodes, mmaps, handles, app_state, app_core, op, self, inner,
                   fetched, wbuf, woff, wino, kills>>
    /\ UNCHANGED <<fetchVars, queryVars, spriteVars, otherVars>>

\* initialize: load_from_file, and on Ok the second access and the stores
\* (core.rs:56-77)
InitializeLoad ==
    /\ spc = "load_from_file"
    /\ LET r == load_from_file(cache_path, inodes)
           m == Len(mmaps) + 1
       IN  IF r.ok
           THEN IF access(inodes[r.val]).ok
                THEN /\ inner' = Attach(inner, m)
                     /\ mmaps' = Reap(Append(mmaps, [ino |-> r.val, live |-> TRUE]),
                                      handles, app_core, inner')
                     /\ spc' = "return_ok"
                ELSE /\ inner' = inner
                     /\ mmaps' = Append(mmaps, Unmapped)
                     /\ spc' = "return_err"
           ELSE /\ inner' = inner
                /\ mmaps' = mmaps
                /\ spc' = "fetch_all_pokemon"
    /\ UNCHANGED <<cache_path, inodes, handles, app_state, app_core, op, self, fetched,
                   wbuf, woff, wino, kills>>
    /\ UNCHANGED <<fetchVars, queryVars, spriteVars, otherVars>>

\* fetch_all_pokemon().await (core.rs:87, 95)
FetchAllPokemon ==
    /\ spc = "fetch_all_pokemon"
    /\ \E m \in StoreFetchResults : fetched' = Some(m)
    /\ spc' = "save_open"
    /\ UNCHANGED <<cache_path, inodes, mmaps, handles, app_state, app_core, op, self, inner,
                   wbuf, woff, wino, kills>>
    /\ UNCHANGED <<fetchVars, queryVars, spriteVars, otherVars>>

\* save_to_file up to the open: create_dir_all, to_bytes, open (core.rs:364-377)
SaveOpen ==
    /\ spc = "save_open"
    /\ \E r \in RequestOutcomes :
         IF r = "err"
         THEN /\ spc' = "return_err"
              /\ UNCHANGED <<cache_path, inodes, wbuf, woff, wino>>
         ELSE /\ IF cache_path = 0
                 THEN /\ inodes' = Append(inodes, <<>>)
                      /\ cache_path' = Len(inodes) + 1
                 ELSE /\ inodes' = [inodes EXCEPT ![cache_path] = open_truncate(@)]
                      /\ cache_path' = cache_path
              /\ wino' = cache_path'
              /\ wbuf' = to_bytes(Unwrap(fetched))
              /\ woff' = 0
              /\ spc' = "save_write"
    /\ UNCHANGED <<mmaps, handles, app_state, app_core, op, self, inner, fetched, kills>>
    /\ UNCHANGED <<fetchVars, queryVars, spriteVars, otherVars>>

\* one write() of write_all, and after the last one flush and Ok(())
\* (core.rs:379-382); refresh_data goes on to initialize (core.rs:91),
\* refresh_data_internal to its load_from_file (core.rs:98)
SaveWrite ==
    /\ spc = "save_write"
    /\ \E r \in RequestOutcomes :
         IF r = "err"
         THEN /\ spc' = "return_err"
              /\ wino' = 0
              /\ UNCHANGED <<inodes, woff, op, inner>>
         ELSE LET k == Min(WriteChunk, Len(wbuf) - woff) IN
              /\ inodes' = [inodes EXCEPT ![wino] =
                               WriteAt(@, woff, SubSeq(wbuf, woff + 1, woff + k))]
              /\ woff' = woff + k
              /\ IF woff + k = Len(wbuf)
                 THEN /\ wino' = 0
                      /\ IF op = "refresh_data"
                         THEN /\ op' = "initialize"
                              /\ inner' = NewInner
                              /\ spc' = "load_from_file"
                         ELSE /\ spc' = "reload"
                              /\ UNCHANGED <<op, inner>>
                 ELSE /\ spc' = "save_write"
                      /\ UNCHANGED <<wino, op, inner>>
    /\ UNCHANGED <<cache_path, mmaps, handles, app_state, app_core, self, fetched, wbuf, kills>>
    /\ UNCHANGED <<fetchVars, queryVars, spriteVars, otherVars>>

\* refresh_data_internal after the save: load_from_file()?, access, the
\* stores (core.rs:98-108)
Reload ==
    /\ spc = "reload"
    /\ LET r == load_from_file(cache_path, inodes)
           m == Len(mmaps) + 1
       IN  IF r.ok /\ access(inodes[r.val]).ok
           THEN /\ inner' = Attach(inner, m)
                /\ mmaps' = Reap(Append(mmaps, [ino |-> r.val, live |-> TRUE]),
                                 handles, app_core, inner')
                /\ spc' = "download_sprites"
           ELSE /\ inner' = inner
                /\ mmaps' = mmaps
                /\ spc' = "return_err"
    /\ UNCHANGED <<cache_path, inodes, handles, app_state, app_core, op, self, fetched,
                   wbuf, woff, wino, kills>>
    /\ UNCHANGED <<fetchVars, queryVars, spriteVars, otherVars>>

\* download_all_pokemon_sprites().await, its error only printed
\* (core.rs:110-115)
DownloadSprites ==
    /\ spc = "download_sprites"
    /\ spc' = "return_ok"
    /\ UNCHANGED <<cache_path, inodes, mmaps, handles, app_state, app_core, op, self, inner,
                   fetched, wbuf, woff, wino, kills>>
    /\ UNCHANGED <<fetchVars, queryVars, spriteVars, otherVars>>

\* Ok(StarryCore { inner: Arc::new(inner) }) (core.rs:79-81), handed to the
\* caller of refresh_data or, as CoreLoaded(Ok), installed in State::Ready
\* in place of the core held before (app.rs:452-471)
ReturnOk ==
    /\ spc = "return_ok"
    /\ IF self = 0
       THEN app_state' = "Ready" /\ app_core' = Len(handles) + 1
       ELSE UNCHANGED <<app_state, app_core>>
    /\ handles' = ReapHandles(Append(handles, [_mmap |-> inner._mmap,
                                               pokemon_data |-> inner.pokemon_data,
                                               clones |-> IF self # 0 THEN 1 ELSE 0]),
                              app_core')
    /\ inner' = NewInner
    /\ mmaps' = Reap(mmaps, handles', app_core', inner')
    /\ inodes' = FreeInodes(inodes, cache_path, mmaps')
    /\ op' = "idle"
    /\ spc' = "none"
    /\ self' = 0
    /\ fetched' = None
    /\ wbuf' = <<>>
    /\ woff' = 0
    /\ UNCHANGED <<cache_path, wino, kills>>
    /\ UNCHANGED <<fetchVars, queryVars, spriteVars, otherVars>>

\* a slip: a failed call runs the build again instead of returning
ReturnErrRetries ==
    /\ spc = "return_err"
    /\ spc' = "fetch_all_pokemon"
    /\ inner' = NewInner
    /\ mmaps' = Reap(mmaps, handles, app_core, inner')
    /\ inodes' = FreeInodes(inodes, cache_path, mmaps')
    /\ fetched' = None
    /\ wbuf' = <<>>
    /\ woff' = 0
    /\ UNCHANGED <<cache_path, handles, app_state, app_core, op, self, wino, kills>>
    /\ UNCHANGED <<fetchVars, queryVars, spriteVars, otherVars>>

\* the call returns Err: to the caller of refresh_data or, as
\* CoreLoaded(Err), into State::Error (app.rs:453-456)
ReturnErr ==
    /\ spc = "return_err"
    /\ IF self = 0
       THEN app_state' = "Error" /\ app_core' = 0
       ELSE UNCHANGED <<app_state, app_core>>
    /\ handles' = ReapHandles(handles, app_core')
    /\ inner' = NewInner
    /\ mmaps' = Reap(mmaps, handles', app_core', inner')
    /\ inodes' = FreeInodes(inodes, cache_path, mmaps')
    /\ op' = "idle"
    /\ spc' = "none"
    /\ self' = 0
    /\ fetched' = None
    /\ wbuf' = <<>>
    /\ woff' = 0
    /\ UNCHANGED <<cache_path, wino, kills>>
    /\ UNCHANGED <<fetchVars, queryVars, spriteVars, otherVars>>

\* PokemonListInput::ClearFilters (app.rs:749-755)
ClearFilters ==
    /\ app_state = "Ready"
    /\ op = "idle"
    /\ Len(handles) < MaxHandles
    /\ app_state' = "Loading"
    /\ app_core' = 0
    /\ handles' = ReapHandles(handles, app_core')
    /\ mmaps' = Reap(mmaps, handles', app_core', inner)
    /\ inodes' = FreeInodes(inodes, cache_path, mmaps')
    /\ op' = "initialize"
    /\ spc' = "load_from_file"
    /\ UNCHANGED <<cache_path, self, inner, fetched, wbuf, woff, wino, kills>>
    /\ UNCHANGED <<fetchVars, queryVars, spriteVars, otherVars>>

\* ConfigInput::DeleteCache (app.rs:599-613): remove_dir_contents, its
\* error only printed, then initialize
DeleteCache ==
    /\ app_state = "Ready"
    /\ op = "idle"
    /\ Len(handles) < MaxHandles
    /\ \E removed \in BOOLEAN :
         /\ removed => Len(inodes) < MaxInodes
         /\ cache_path' = IF removed THEN 0 ELSE cache_path
    /\ inodes' = FreeInodes(inodes, cache_path', mmaps)
    /\ op' = "initialize"
    /\ spc' = "load_from_file"
    /\ UNCHANGED <<mmaps, handles, app_state, app_core, self, inner, fetched,
                   wbuf, woff, wino, kills>>
    /\ UNCHANGED <<fetchVars, queryVars, spriteVars, otherVars>>

\* a caller calls refresh_data on a handle it holds (core.rs:86-92)
RefreshData(h) ==
    /\ op = "idle"
    /\ Len(handles) < MaxHandles
    /\ handles[h].clones >= 1
    /\ op' = "refresh_data"
    /\ self' = h
    /\ spc' = "fetch_all_pokemon"
    /\ UNCHANGED <<cache_path, inodes, mmaps, handles, app_state, app_core, inner, fetched,
                   wbuf, woff, wino, kills>>
    /\ UNCHANGED <<fetchVars, queryVars, spriteVars, otherVars>>

\* StarryCore::clone (derive(Clone) over the Arc, core.rs:30-33)
CloneHandle(h) ==
    /\ StrongCount(handles, app_core, h) > 0
    /\ handles[h].clones < MaxClones
    /\ handles' = [handles EXCEPT ![h].clones = @ + 1]
    /\ UNCHANGED <<cache_path, inodes, mmaps, app_state, app_core, op, spc, self, inner,
                   fetched, wbuf, woff, wino, kills>>
    /\ UNCHANGED <<fetchVars, queryVars, spriteVars, otherVars>>

\* a caller drops its clone; the one refresh_data borrows stays
DropClone(h) ==
    /\ handles[h].clones >= 1
    /\ self = h => handles[h].clones >= 2
    /\ handles' = ReapHandles([handles EXCEPT ![h].clones = @ - 1], app_core)
    /\ mmaps' = Reap(mmaps, handles', app_core, inner)
    /\ inodes' = FreeInodes(inodes, cache_path, mmaps')
    /\ UNCHANGED <<cache_path, app_state, app_core, op, spc, self, inner,
                   fetched, wbuf, woff, wino, kills>>
    /\ UNCHANGED <<fetchVars, queryVars, spriteVars, otherVars>>

\* the process is terminated; the files stay; the application is started
\* again and its init spawns initialize (app.rs:224-226)
Kill ==
    /\ kills < MaxKills
    /\ kills' = kills + 1
    /\ mmaps' = <<>>
    /\ handles' = <<>>
    /\ app_state' = "Loading"
    /\ app_core' = 0
    /\ op' = "initialize"
    /\ spc' = "load_from_file"
    /\ self' = 0
    /\ inner' = NewInner
    /\ fetched' = None
    /\ wbuf' = <<>>
    /\ woff' = 0
    /\ wino' = 0
    /\ inodes' = FreeInodes(inodes, cache_path, mmaps')
    /\ UNCHANGED cache_path
    /\ UNCHANGED <<fetchVars, queryVars, spriteVars, otherVars>>

StoreNext ==
    \/ InitializeLoad
    \/ FetchAllPokemon
    \/ SaveOpen
    \/ SaveWrite
    \/ Reload
    \/ DownloadSprites
    \/ ReturnOk
    \/ ReturnErr
    \/ ClearFilters
    \/ DeleteCache
    \/ \E h \in 1..Len(handles) : RefreshData(h)
    \/ \E h \in 1..Len(handles) : CloneHandle(h)
    \/ \E h \in 1..Len(handles) : DropClone(h)
    \/ Kill

SpecStore == StoreInit /\ [][StoreNext]_vars

(***************************************************************************)
(* SpecUpgrade: the cache directory across two releases of the             *)
(* application.  The release before builds its snapshot, the application   *)
(* is replaced by the release of core.rs, which starts on the directory    *)
(* the first one left.                                                     *)
(***************************************************************************)
\* the blob the release before wrote: the layout of its record is not the
\* one of core.rs (here: the record without its last field)
to_bytes_previous(pokemons) ==
    LET keys == SortedSeq(DOMAIN pokemons)
        Entry(k) == <<k>> \o SubSeq(SerializeRecord(pokemons[k]), 1, RecWidth - 1)
        Entries[i \in 0..Len(keys)] ==
            IF i = 0 THEN <<>> ELSE Entries[i - 1] \o Entry(keys[i])
    IN  Entries[Len(keys)] \o <<Cardinality(DOMAIN pokemons)>>

\* the bytes a release writes for a collection
to_bytes_of(version, pokemons) ==
    IF version = "current" THEN to_bytes(pokemons) ELSE to_bytes_previous(pokemons)

UpgradeInit ==
    /\ SpriteIdle
    /\ BuildIdle
    /\ AppIdle
    /\ FetchIdle
    /\ QueryIdle
    /\ StoreIdle
    /\ u_version = "previous"
    /\ u_files = [n \in FileNames |-> None]
    /\ u_pc = "fetch_all_pokemon"
    /\ u_fetched = None
    /\ u_opened = None
    /\ u_attempted = {}

\* initialize of the running release: load_from_file opens and maps the
\* file of its name and validates it; Ok is served, Err goes to the
\* rebuild (core.rs:56-77, 386-400)
UpgradeInitializeLoad ==
    /\ u_pc = "load_from_file"
    /\ LET f == u_files[cache_file_name(u_version)] IN
         IF IsSome(f)
         THEN /\ u_attempted' = u_attempted \cup {Unwrap(f).written_by}
              /\ IF access(Unwrap(f).bytes).ok
                 THEN /\ u_opened' = f
                      /\ u_pc' = "ready"
                 ELSE /\ u_opened' = u_opened
                      /\ u_pc' = "fetch_all_pokemon"
         ELSE /\ u_pc' = "fetch_all_pokemon"
              /\ UNCHANGED <<u_opened, u_attempted>>
    /\ UNCHANGED <<u_version, u_files, u_fetched>>
    /\ UNCHANGED <<fetchVars, queryVars, storeVars, spriteVars, buildVars, appVars>>

\* fetch_all_pokemon().await (core.rs:95)
UpgradeFetchAllPokemon ==
    /\ u_pc = "fetch_all_pokemon"
    /\ \E m \in FetchResults(NumEntities) : u_fetched' = Some(m)
    /\ u_pc' = "save_to_file"
    /\ UNCHANGED <<u_version, u_files, u_opened, u_attempted>>
    /\ UNCHANGED <<fetchVars, queryVars, storeVars, spriteVars, buildVars, appVars>>

\* save_to_file and the load_from_file after it (core.rs:97-108, 363-383):
\* the blob of the running release replaces the file and is mapped
UpgradeSaveAndReload ==
    /\ u_pc = "save_to_file"
    /\ LET f == Some([written_by |-> u_version,
                      bytes |-> to_bytes_of(u_version, Unwrap(u_fetched))]) IN
         /\ u_files' = [u_files EXCEPT ![cache_file_name(u_version)] = f]
         /\ u_opened' = f
         /\ u_attempted' = u_attempted \cup {u_version}
    /\ u_fetched' = None
    /\ u_pc' = "ready"
    /\ UNCHANGED u_version
    /\ UNCHANGED <<fetchVars, queryVars, storeVars, spriteVars, buildVars, appVars>>

\* the application is replaced by the release of core.rs and started: the
\* files stay, the new process has opened nothing
Upgrade ==
    /\ u_pc = "ready"
    /\ u_version = "previous"
    /\ u_version' = "current"
    /\ u_opened' = None
    /\ u_attempted' = {}
    /\ u_pc' = "load_from_file"
    /\ UNCHANGED <<u_files, u_fetched>>
    /\ UNCHANGED <<fetchVars, queryVars, storeVars, spriteVars, buildVars, appVars>>

\* the running release is started again
UpgradeRestart ==
    /\ u_pc = "ready"
    /\ u_version = "current"
    /\ u_opened' = None
    /\ u_attempted' = {}
    /\ u_pc' = "load_from_file"
    /\ UNCHANGED <<u_version, u_files, u_fetched>>
    /\ UNCHANGED <<fetchVars, queryVars, storeVars, spriteVars, buildVars, appVars>>

UpgradeNext ==
    \/ UpgradeInitializeLoad
    \/ UpgradeFetchAllPokemon
    \/ UpgradeSaveAndReload
    \/ Upgrade
    \/ UpgradeRestart

SpecUpgrade == UpgradeInit /\ [][UpgradeNext]_vars

(***************************************************************************)
(* SpecBuilds: the initialize tasks the message handlers spawn, running    *)
(* side by side on the runtime over the one cache file.  Every step of a   *)
(* task is one await point or system call; update runs between them.       *)
(***************************************************************************)
Tasks == 1..MaxTasks

Running(tasks) == {t \in Tasks : tasks[t].spc # "none"}

\* a file lives while it has a name, a mapping or an open descriptor
BuildInUse(i, path, core, tasks) ==
    \/ i = path
    \/ i = core
    \/ \E t \in Tasks : tasks[t].ino = i \/ tasks[t].wino = i
BuildFree(files, path, core, tasks) ==
    [i \in 1..Len(files) |-> IF BuildInUse(i, path, core, tasks) THEN files[i] ELSE <<>>]

\* the inode a newly created file gets: the lowest one not in use
NewInode(files, path, core, tasks) ==
    CHOOSE i \in 1..(Len(files) + 1) :
        /\ ~BuildInUse(i, path, core, tasks)
        /\ \A j \in 1..(i - 1) : BuildInUse(j, path, core, tasks)

\* Task::perform(StarryCore::initialize(), ..): the task takes the lowest
\* slot that holds none
Spawn(tasks) ==
    LET t == CHOOSE x \in Tasks \ Running(tasks) :
                 \A y \in Tasks \ Running(tasks) : x <= y
    IN  [tasks EXCEPT ![t] = [NoTask EXCEPT !.spc = "load_from_file"]]

\* AppModel::init (app.rs:217-227): State::Loading and the first initialize
BuildsInit ==
    /\ SpriteIdle
    /\ UpgradeIdle
    /\ AppIdle
    /\ FetchIdle
    /\ QueryIdle
    /\ StoreIdle
    /\ b_state = "Loading"
    /\ b_core = 0
    /\ b_path = 0
    /\ b_inodes = <<>>
    /\ b_tasks = Spawn([t \in Tasks |-> NoTask])

\* initialize: load_from_file, and on Ok the access and the stores
\* (core.rs:56-77)
BuildInitializeLoad(t) ==
    /\ b_tasks[t].spc = "load_from_file"
    /\ LET r == load_from_file(b_path, b_inodes) IN
         b_tasks' = [b_tasks EXCEPT ![t] =
                        IF r.ok THEN [@ EXCEPT !.ino = r.val, !.spc = "return_ok"]
                        ELSE [@ EXCEPT !.spc = "fetch_all_pokemon"]]
    /\ UNCHANGED <<b_state, b_core, b_path, b_inodes>>
    /\ UNCHANGED <<fetchVars, queryVars, storeVars, spriteVars, upgradeVars, appVars>>

\* fetch_all_pokemon().await (core.rs:95)
BuildFetchAllPokemon(t) ==
    /\ b_tasks[t].spc = "fetch_all_pokemon"
    /\ \E m \in StoreFetchResults :
         b_tasks' = [b_tasks EXCEPT ![t] = [@ EXCEPT !.fetched = Some(m), !.spc = "save_open"]]
    /\ UNCHANGED <<b_state, b_core, b_path, b_inodes>>
    /\ UNCHANGED <<fetchVars, queryVars, storeVars, spriteVars, upgradeVars, appVars>>

\* save_to_file up to the open: create_dir_all, to_bytes, open with
\* create and truncate (core.rs:364-377)
BuildSaveOpen(t) ==
    /\ b_tasks[t].spc = "save_open"
    /\ \E r \in RequestOutcomes :
         IF r = "err"
         THEN /\ b_tasks' = [b_tasks EXCEPT ![t] = [@ EXCEPT !.spc = "return_err"]]
              /\ UNCHANGED <<b_path, b_inodes>>
         ELSE LET i == IF b_path = 0 THEN NewInode(b_inodes, b_path, b_core, b_tasks)
                       ELSE b_path
              IN  /\ b_path' = i
                  /\ b_inodes' = IF i > Len(b_inodes) THEN Append(b_inodes, <<>>)
                                 ELSE [b_inodes EXCEPT ![i] = open_truncate(@)]
                  /\ b_tasks' = [b_tasks EXCEPT ![t] =
                                    [@ EXCEPT !.wino = i, !.woff = 0, !.spc = "save_write"]]
    /\ UNCHANGED <<b_state, b_core>>
    /\ UNCHANGED <<fetchVars, queryVars, storeVars, spriteVars, upgradeVars, appVars>>

\* one write() of write_all at the descriptor's offset, and after the last
\* one flush, close and Ok(()) (core.rs:379-382)
BuildSaveWrite(t) ==
    /\ b_tasks[t].spc = "save_write"
    /\ \E r \in RequestOutcomes :
         LET task == b_tasks[t]
             buf == to_bytes(Unwrap(task.fetched))
             k == Min(WriteChunk, Len(buf) - task.woff)
             written == [b_inodes EXCEPT ![task.wino] =
                            WriteAt(@, task.woff, SubSeq(buf, task.woff + 1, task.woff + k))]
             closed == [task EXCEPT !.wino = 0, !.woff = 0]
         IN  IF r = "err"
             THEN /\ b_tasks' = [b_tasks EXCEPT ![t] = [closed EXCEPT !.spc = "return_err"]]
                  /\ b_inodes' = BuildFree(b_inodes, b_path, b_core, b_tasks')
             ELSE /\ b_tasks' = [b_tasks EXCEPT ![t] =
                                    IF task.woff + k = Len(buf)
                                    THEN [closed EXCEPT !.spc = "reload"]
                                    ELSE [task EXCEPT !.woff = task.woff + k]]
                  /\ b_inodes' = BuildFree(written, b_path, b_core, b_tasks')
    /\ UNCHANGED <<b_state, b_core, b_path>>
    /\ UNCHANGED <<fetchVars, queryVars, storeVars, spriteVars, upgradeVars, appVars>>

\* refresh_data_internal after the save: load_from_file()?, access, the
\* stores (core.rs:98-108)
BuildReload(t) ==
    /\ b_tasks[t].spc = "reload"
    /\ LET r == load_from_file(b_path, b_inodes) IN
         b_tasks' = [b_tasks EXCEPT ![t] =
                        IF r.ok THEN [@ EXCEPT !.ino = r.val, !.spc = "download_sprites"]
                        ELSE [@ EXCEPT !.spc = "return_err"]]
    /\ UNCHANGED <<b_state, b_core, b_path, b_inodes>>
    /\ UNCHANGED <<fetchVars, queryVars, storeVars, spriteVars, upgradeVars, appVars>>

\* download_all_pokemon_sprites().await, its error only printed
\* (core.rs:110-115)
BuildDownloadSprites(t) ==
    /\ b_tasks[t].spc = "download_sprites"
    /\ b_tasks' = [b_tasks EXCEPT ![t] = [@ EXCEPT !.spc = "return_ok"]]
    /\ UNCHANGED <<b_state, b_core, b_path, b_inodes>>
    /\ UNCHANGED <<fetchVars, queryVars, storeVars, spriteVars, upgradeVars, appVars>>

\* Message::CoreLoaded (app.rs:452-471), in whatever state it arrives:
\* Err puts State::Error, Ok puts State::Ready with the core returned; the
\* core held before is dropped
CoreLoaded(t) ==
    /\ b_tasks[t].spc \in {"return_ok", "return_err"}
    /\ IF b_tasks[t].spc = "return_ok"
       THEN b_state' = "Ready" /\ b_core' = b_tasks[t].ino
       ELSE b_state' = "Error" /\ b_core' = 0
    /\ b_tasks' = [b_tasks EXCEPT ![t] = NoTask]
    /\ b_inodes' = BuildFree(b_inodes, b_path, b_core', b_tasks')
    /\ UNCHANGED b_path
    /\ UNCHANGED <<fetchVars, queryVars, storeVars, spriteVars, upgradeVars, appVars>>

\* ConfigInput::DeleteCache (app.rs:599-613): only in State::Ready, which
\* it leaves in place; remove_dir_contents, its error only printed; then
\* initialize is spawned
BuildDeleteCache ==
    /\ b_state = "Ready"
    /\ Running(b_tasks) # Tasks
    /\ \E removed \in RequestOutcomes :
         b_path' = IF removed = "ok" THEN 0 ELSE b_path
    /\ b_tasks' = Spawn(b_tasks)
    /\ b_inodes' = BuildFree(b_inodes, b_path', b_core, b_tasks')
    /\ UNCHANGED <<b_state, b_core>>
    /\ UNCHANGED <<fetchVars, queryVars, storeVars, spriteVars, upgradeVars, appVars>>

\* PokemonListInput::ClearFilters (app.rs:695, 749-755): only in
\* State::Ready; State::Loading drops the core; initialize is spawned
BuildClearFilters ==
    /\ b_state = "Ready"
    /\ Running(b_tasks) # Tasks
    /\ b_state' = "Loading"
    /\ b_core' = 0
    /\ b_tasks' = Spawn(b_tasks)
    /\ b_inodes' = BuildFree(b_inodes, b_path, b_core', b_tasks')
    /\ UNCHANGED b_path
    /\ UNCHANGED <<fetchVars, queryVars, storeVars, spriteVars, upgradeVars, appVars>>

BuildsNext ==
    \/ \E t \in Tasks :
         \/ BuildInitializeLoad(t)
         \/ BuildFetchAllPokemon(t)
         \/ BuildSaveOpen(t)
         \/ BuildSaveWrite(t)
         \/ BuildReload(t)
         \/ BuildDownloadSprites(t)
         \/ CoreLoaded(t)
    \/ BuildDeleteCache
    \/ BuildClearFilters

SpecBuilds == BuildsInit /\ [][BuildsNext]_vars

(***************************************************************************)
(* The application model (src/src/app.rs): AppModel::update over the       *)
(* fields of State::Ready that the list, the search, the filters and the   *)
(* details page read and write.  wants_pokemon_details and the context     *)
(* drawer are view flags no handler below reads; they are left out.  The   *)
(* core held by State::Ready is a handle on one snapshot, replaced only by *)
(* CoreLoaded.                                                             *)
(***************************************************************************)
\* the outcome of an entity's requests when every one of them succeeds
AllOk(e) ==
    [detail |-> "ok", encounter |-> "ok", species |-> "ok",
     evolution |-> IF EvolutionChainId(e).ok THEN "ok" ELSE "none"]
\* the snapshots a loaded core can read: of an empty population and of a
\* population every request of which succeeded
AppSnapshots ==
    {Some(access(to_bytes(m)).val) :
        m \in {CollectPokemonMap(<<>>),
               CollectPokemonMap([e \in 1..AppEntities |-> fetch_pokemon_details(e, AllOk(e))])}}
\* the values the messages carry
AppTypes == {"fire", "grass"}
AppGenerations == {"gen-i"}
AppTotals == {314}
AppSearches == {"", "saur"}
AppModes == {"Inclusive", "Exclusive"}

\* Filters::any_applied (filters.rs:24-35)
any_applied(filters) ==
    \/ filters.selected_types # {}
    \/ filters.selected_generations # {}
    \/ filters.total_stats[1]

\* pokemon_list.iter().position(|p| p.id == current_pokemon.pokemon.id)
position(pokemon_list, id) ==
    IF \E i \in 1..Len(pokemon_list) : pokemon_list[i].id = id
    THEN Some((CHOOSE i \in 1..Len(pokemon_list) :
                  /\ pokemon_list[i].id = id
                  /\ \A j \in 1..(i - 1) : pokemon_list[j].id # id) - 1)
    ELSE None

\* a plausible slip: the successor of the last entry is the last entry
details_next_clamped(data, pokemon_list, selected_pokemon) ==
    IF pokemon_list # <<>> /\ IsSome(selected_pokemon)
       /\ IsSome(position(pokemon_list, Unwrap(selected_pokemon).pokemon.id))
    THEN LET current_index == Unwrap(position(pokemon_list, Unwrap(selected_pokemon).pokemon.id))
             next_index == Min(current_index + 1, Len(pokemon_list) - 1)
         IN  get_pokemon_by_id(data, pokemon_list[next_index + 1].id)
    ELSE selected_pokemon

\* PokemonDetailsInput::PaginationAction(Next) (app.rs:631-655): the
\* selection after the message
details_next(data, pokemon_list, selected_pokemon) ==
    IF pokemon_list # <<>> /\ IsSome(selected_pokemon)
       /\ IsSome(position(pokemon_list, Unwrap(selected_pokemon).pokemon.id))
    THEN LET current_index == Unwrap(position(pokemon_list, Unwrap(selected_pokemon).pokemon.id))
             next_index == (current_index + 1) % Len(pokemon_list)
         IN  get_pokemon_by_id(data, pokemon_list[next_index + 1].id)
    ELSE selected_pokemon

\* PokemonDetailsInput::PaginationAction(Back) (app.rs:656-685)
details_back(data, pokemon_list, selected_pokemon) ==
    IF pokemon_list # <<>> /\ IsSome(selected_pokemon)
       /\ IsSome(position(pokemon_list, Unwrap(selected_pokemon).pokemon.id))
    THEN LET current_index == Unwrap(position(pokemon_list, Unwrap(selected_pokemon).pokemon.id))
             prev_index == IF current_index = 0 THEN Len(pokemon_list) - 1
                           ELSE current_index - 1
         IN  get_pokemon_by_id(data, pokemon_list[prev_index + 1].id)
    ELSE selected_pokemon

\* a plausible slip: the following page is taken without the emptiness test
list_next_unchecked(data, per_page, filters, search, current_page, pokemon_list) ==
    IF ~any_applied(filters) /\ search = ""
    THEN <<current_page + 1, get_pokemon_page(data, (current_page + 1) * per_page, per_page)>>
    ELSE <<current_page, pokemon_list>>

\* PokemonListInput::PaginationAction(Next) (app.rs:709-720): current_page
\* and pokemon_list after the message
list_next(data, per_page, filters, search, current_page, pokemon_list) ==
    IF ~any_applied(filters) /\ search = ""
    THEN LET new_pokemon_list ==
                 get_pokemon_page(data, (current_page + 1) * per_page, per_page)
         IN  IF new_pokemon_list # <<>>
             THEN <<current_page + 1, new_pokemon_list>>
             ELSE <<current_page, pokemon_list>>
    ELSE <<current_page, pokemon_list>>

\* PokemonListInput::PaginationAction(Back) (app.rs:721-737)
list_back(data, per_page, filters, search, current_page, pokemon_list) ==
    IF current_page >= 1 /\ ~any_applied(filters) /\ search = ""
    THEN LET new_pokemon_list ==
                 get_pokemon_page(data, (current_page - 1) * per_page, per_page)
         IN  IF new_pokemon_list # <<>>
             THEN <<current_page - 1, new_pokemon_list>>
             ELSE <<current_page, pokemon_list>>
    ELSE <<current_page, pokemon_list>>

\* a plausible slip: the stats filter is left out of the chain
apply_current_filters_no_stats(data, config, filters) ==
    LET all_pokemon == get_pokemon_list(data)
        by_type == IF filters.selected_types # {}
                   THEN IF config.type_filtering_mode = "Inclusive"
                        THEN filter_pokemon_inclusive(data, filters.selected_types)
                        ELSE filter_pokemon_exclusive(data, filters.selected_types)
                   ELSE all_pokemon
    IN  IF filters.selected_generations # {}
        THEN filter_pokemon_by_generation(data, by_type, filters.selected_generations)
        ELSE by_type

\* FiltersInput::ApplyCurrentFilters (app.rs:810-840): the list the handler
\* installs when a filter is applied
apply_current_filters(data, config, filters) ==
    LET all_pokemon == get_pokemon_list(data)
        by_type == IF filters.selected_types # {}
                   THEN IF config.type_filtering_mode = "Inclusive"
                        THEN filter_pokemon_inclusive(data, filters.selected_types)
                        ELSE filter_pokemon_exclusive(data, filters.selected_types)
                   ELSE all_pokemon
        by_stats == IF filters.total_stats[1] /\ filters.total_stats[2] > 0
                    THEN filter_pokemon_stats_with_list(data, by_type, filters.total_stats[2])
                    ELSE by_type
    IN  IF filters.selected_generations # {}
        THEN filter_pokemon_by_generation(data, by_stats, filters.selected_generations)
        ELSE by_stats

AppReady == a_state = "Ready"
AppOthers == <<fetchVars, queryVars, storeVars, spriteVars, upgradeVars, buildVars>>

\* AppModel::init (app.rs:205-230): State::Loading and one initialize task
AppInit ==
    /\ FetchIdle
    /\ QueryIdle
    /\ ExtractIdle
    /\ StoreIdle
    /\ SpriteIdle
    /\ UpgradeIdle
    /\ BuildIdle
    /\ a_state = "Loading"
    /\ a_pending = TRUE
    /\ a_config = DefaultConfig
    /\ a_data = None
    /\ a_list = <<>>
    /\ a_selected = None
    /\ a_search = ""
    /\ a_filters = DefaultFilters
    /\ a_page = 0
    /\ a_msg = "other"

\* Message::CoreLoaded (app.rs:452-471), of one of the tasks in flight; whether
\* another one stays in flight is left open
AppCoreLoaded ==
    /\ a_pending
    /\ a_pending' \in BOOLEAN
    /\ a_msg' = "other"
    /\ \/ /\ a_state' = "Error"
          /\ a_data' = None
          /\ a_list' = <<>>
       \/ \E core \in AppSnapshots :
            /\ a_state' = "Ready"
            /\ a_data' = core
            /\ a_list' = get_pokemon_page(core, 0, a_config.pokemon_per_page)
    /\ a_selected' = None
    /\ a_search' = ""
    /\ a_filters' = DefaultFilters
    /\ a_page' = 0
    /\ UNCHANGED a_config
    /\ UNCHANGED AppOthers

\* the reset Message::UpdateConfig and Message::ConfigUpdated share
\* (app.rs:389-397, 405-413)
ResetPage(config) ==
    IF AppReady
    THEN /\ a_page' = 0
         /\ a_list' = get_pokemon_page(a_data, 0, config.pokemon_per_page)
    ELSE UNCHANGED <<a_page, a_list>>

\* Message::UpdateConfig (app.rs:384-399)
AppUpdateConfig ==
    /\ \E per_page \in 1..MaxPerPage, mode \in AppModes :
         /\ a_config' = [pokemon_per_page |-> per_page, type_filtering_mode |-> mode]
         /\ ResetPage(a_config')
    /\ a_msg' = "other"
    /\ UNCHANGED <<a_state, a_pending, a_data, a_selected, a_search, a_filters>>
    /\ UNCHANGED AppOthers

\* ConfigInput::UpdatePokemonPerPage with a config handler, and the
\* Message::ConfigUpdated it ends in (app.rs:565-578, 401-415)
AppUpdatePokemonPerPage ==
    /\ \E value \in 1..MaxPerPage :
         /\ a_config' = [a_config EXCEPT !.pokemon_per_page = value]
         /\ ResetPage(a_config')
    /\ a_msg' = "other"
    /\ UNCHANGED <<a_state, a_pending, a_data, a_selected, a_search, a_filters>>
    /\ UNCHANGED AppOthers

\* ConfigInput::UpdateTypeFilterMode with a config handler (app.rs:579-597)
AppUpdateTypeFilterMode ==
    /\ \E index \in 0..1 :
         a_config' = [a_config EXCEPT !.type_filtering_mode =
                         IF index = 1 THEN "Inclusive" ELSE "Exclusive"]
    /\ a_msg' = "other"
    /\ UNCHANGED <<a_state, a_pending, a_data, a_list, a_selected, a_search, a_filters, a_page>>
    /\ UNCHANGED AppOthers

\* ConfigInput::DeleteCache (app.rs:599-613): State::Ready stays, another
\* initialize is spawned
AppDeleteCache ==
    /\ AppReady
    /\ a_pending' = TRUE
    /\ a_msg' = "other"
    /\ UNCHANGED <<a_state, a_config, a_data, a_list, a_selected, a_search, a_filters, a_page>>
    /\ UNCHANGED AppOthers

\* Message::LoadPokemon (app.rs:474-494), sent by an entry of the list
AppLoadPokemon ==
    /\ AppReady
    /\ \E i \in 1..Len(a_list) : a_selected' = get_pokemon_by_id(a_data, a_list[i].id)
    /\ a_msg' = "other"
    /\ UNCHANGED <<a_state, a_pending, a_config, a_data, a_list, a_search, a_filters, a_page>>
    /\ UNCHANGED AppOthers

\* PokemonDetailsInput::PaginationAction(Next) (app.rs:631-655)
AppDetailsNext ==
    /\ AppReady
    /\ a_selected' = details_next(a_data, a_list, a_selected)
    /\ a_msg' = "DetailsNext"
    /\ UNCHANGED <<a_state, a_pending, a_config, a_data, a_list, a_search, a_filters, a_page>>
    /\ UNCHANGED AppOthers

\* PokemonDetailsInput::PaginationAction(Back) (app.rs:656-685)
AppDetailsBack ==
    /\ AppReady
    /\ a_selected' = details_back(a_data, a_list, a_selected)
    /\ a_msg' = "DetailsBack"
    /\ UNCHANGED <<a_state, a_pending, a_config, a_data, a_list, a_search, a_filters, a_page>>
    /\ UNCHANGED AppOthers

\* PokemonListInput::PaginationAction(Next) (app.rs:709-720)
AppListNext ==
    /\ AppReady
    /\ LET after == list_next(a_data, a_config.pokemon_per_page, a_filters,
                              a_search, a_page, a_list)
       IN  /\ a_page' = after[1]
           /\ a_list' = after[2]
    /\ a_msg' = "other"
    /\ UNCHANGED <<a_state, a_pending, a_config, a_data, a_selected, a_search, a_filters>>
    /\ UNCHANGED AppOthers

\* PokemonListInput::PaginationAction(Back) (app.rs:721-737)
AppListBack ==
    /\ AppReady
    /\ LET after == list_back(a_data, a_config.pokemon_per_page, a_filters,
                              a_search, a_page, a_list)
       IN  /\ a_page' = after[1]
           /\ a_list' = after[2]
    /\ a_msg' = "other"
    /\ UNCHANGED <<a_state, a_pending, a_config, a_data, a_selected, a_search, a_filters>>
    /\ UNCHANGED AppOthers

\* PokemonListInput::SearchInput (app.rs:738-748)
AppSearchInput ==
    /\ AppReady
    /\ \E value \in AppSearches :
         /\ a_search' = value
         /\ a_list' = IF value = ""
                      THEN get_pokemon_page(a_data, a_page * a_config.pokemon_per_page,
                                            a_config.pokemon_per_page)
                      ELSE search_pokemon(a_data, value)
    /\ a_msg' = "other"
    /\ UNCHANGED <<a_state, a_pending, a_config, a_data, a_selected, a_filters, a_page>>
    /\ UNCHANGED AppOthers

\* PokemonListInput::ClearFilters (app.rs:749-755): State::Loading and
\* another initialize
AppClearFilters ==
    /\ AppReady
    /\ a_pending' = TRUE
    /\ a_state' = "Loading"
    /\ a_data' = None
    /\ a_list' = <<>>
    /\ a_selected' = None
    /\ a_search' = ""
    /\ a_filters' = DefaultFilters
    /\ a_page' = 0
    /\ a_msg' = "other"
    /\ UNCHANGED a_config
    /\ UNCHANGED AppOthers

\* FiltersInput::TypeFilterToggled (app.rs:775-782)
AppTypeFilterToggled ==
    /\ AppReady
    /\ \E value \in BOOLEAN, pokemon_type \in AppTypes :
         a_filters' = [a_filters EXCEPT !.selected_types =
                          IF value THEN @ \cup {pokemon_type} ELSE @ \ {pokemon_type}]
    /\ a_msg' = "other"
    /\ UNCHANGED <<a_state, a_pending, a_config, a_data, a_list, a_selected, a_search, a_page>>
    /\ UNCHANGED AppOthers

\* FiltersInput::StatsFilterToggled (app.rs:783-786)
AppStatsFilterToggled ==
    /\ AppReady
    /\ \E value \in BOOLEAN :
         a_filters' = [a_filters EXCEPT !.total_stats = <<value, @[2]>>]
    /\ a_msg' = "other"
    /\ UNCHANGED <<a_state, a_pending, a_config, a_data, a_list, a_selected, a_search, a_page>>
    /\ UNCHANGED AppOthers

\* FiltersInput::StatsFilterChanged (app.rs:787-792)
AppStatsFilterChanged ==
    /\ AppReady
    /\ \E value \in AppTotals :
         a_filters' = IF a_filters.total_stats[1]
                      THEN [a_filters EXCEPT !.total_stats = <<@[1], value>>]
                      ELSE a_filters
    /\ a_msg' = "other"
    /\ UNCHANGED <<a_state, a_pending, a_config, a_data, a_list, a_selected, a_search, a_page>>
    /\ UNCHANGED AppOthers

\* FiltersInput::GenerationFilterToggled (app.rs:793-800)
AppGenerationFilterToggled ==
    /\ AppReady
    /\ \E value \in BOOLEAN, generation \in AppGenerations :
         a_filters' = [a_filters EXCEPT !.selected_generations =
                          IF value THEN @ \cup {generation} ELSE @ \ {generation}]
    /\ a_msg' = "other"
    /\ UNCHANGED <<a_state, a_pending, a_config, a_data, a_list, a_selected, a_search, a_page>>
    /\ UNCHANGED AppOthers

\* FiltersInput::ApplyCurrentFilters (app.rs:801-846)
AppApplyCurrentFilters ==
    /\ AppReady
    /\ IF any_applied(a_filters)
       THEN /\ a_search' = ""
            /\ a_page' = 0
            /\ a_list' = apply_current_filters(a_data, a_config, a_filters)
       ELSE UNCHANGED <<a_search, a_page, a_list>>
    /\ a_msg' = "other"
    /\ UNCHANGED <<a_state, a_pending, a_config, a_data, a_selected, a_filters>>
    /\ UNCHANGED AppOthers

AppNext ==
    \/ AppCoreLoaded
    \/ AppUpdateConfig
    \/ AppUpdatePokemonPerPage
    \/ AppUpdateTypeFilterMode
    \/ AppDeleteCache
    \/ AppLoadPokemon
    \/ AppDetailsNext
    \/ AppDetailsBack
    \/ AppListNext
    \/ AppListBack
    \/ AppSearchInput
    \/ AppClearFilters
    \/ AppTypeFilterToggled
    \/ AppStatsFilterToggled
    \/ AppStatsFilterChanged
    \/ AppGenerationFilterToggled
    \/ AppApplyCurrentFilters

SpecApp == AppInit /\ [][AppNext]_vars

(***************************************************************************)
(* Claims about the query layer (SpecQuery).                               *)
(***************************************************************************)
\* the number of entries of the snapshot the caller queries
QLength == IF IsSome(q_data) THEN Cardinality(DOMAIN Unwrap(q_data)) ELSE 0
\* its keys, ascending
QKeys == IF IsSome(q_data) THEN SortedSeq(DOMAIN Unwrap(q_data)) ELSE <<>>

\* C1: get_pokemon_page(offset, limit) never panics and returns exactly the
\* entries at key-order positions offset .. offset + min(limit, L - offset) - 1
\* when offset < L and limit > 0, and the empty list when offset >= L or
\* limit = 0.
C1_PageIsWindow ==
    q_call.op = "get_pokemon_page" =>
        LET n == IF q_call.offset < QLength /\ q_call.limit > 0
                 THEN Min(q_call.limit, QLength - q_call.offset) ELSE 0
        IN  /\ ~q_call.panicked
            /\ Len(q_call.result) = n
            /\ \A i \in 1..n :
                 LET k == QKeys[q_call.offset + i] IN
                 /\ q_call.result[i].id = k
                 /\ q_call.result[i].name = Unwrap(q_data)[k].pokemon.name
                 /\ q_call.result[i].sprite_path = Unwrap(q_data)[k].sprite_path

\* a page that starts inside the snapshot and is clamped to what remains
C1_Witness ==
    /\ q_call.op = "get_pokemon_page"
    /\ q_call.offset >= 1
    /\ q_call.offset < QLength
    /\ q_call.limit > QLength - q_call.offset
    /\ Len(q_call.result) = QLength - q_call.offset
    /\ Len(q_call.result) >= 2

\* C2: for every id that get_pokemon_page(0, L) returns, get_pokemon_by_id(id)
\* is a record whose pokemon.id is that id; for an id that is no key of the
\* snapshot it is None.
C2_LookupMatchesListing ==
    q_call.op = "get_pokemon_by_id" =>
        LET listing == get_pokemon_page(q_data, 0, QLength)
            listed == {listing[i].id : i \in 1..Len(listing)}
        IN  /\ q_call.id \in listed =>
                 /\ IsSome(q_call.result)
                 /\ Unwrap(q_call.result).pokemon.id = q_call.id
            /\ q_call.id \notin {QKeys[i] : i \in 1..Len(QKeys)} => q_call.result = None

\* a lookup of a listed id of a snapshot with several entries
C2_Witness ==
    /\ q_call.op = "get_pokemon_by_id"
    /\ QLength >= 2
    /\ IsSome(q_call.result)
    /\ q_call.id = get_pokemon_page(q_data, 0, QLength)[2].id

(***************************************************************************)
(* Claims about the population run (SpecFetch).                            *)
(***************************************************************************)
\* the entities whose pipeline returned Ok
Succeeded == {e \in Listed : IsSome(ret[e]) /\ Unwrap(ret[e]).ok}
\* the entity the service gives the id k
EntityOfId(k) == CHOOSE e \in Entities : ApiId(e) = k

\* C8: the key set of the collection fetch_all_pokemon returns is exactly the
\* set of ids of the listed entities whose pipeline succeeded; a failed entity
\* is omitted, no pipeline is run twice, and every listed entity's pipeline
\* is run whatever the others did.
C8_ExactlyTheSuccessful ==
    stage = "collected" =>
        /\ DOMAIN Unwrap(pokemon_map) = {ApiId(e) : e \in Succeeded}
        /\ \A e \in Listed : runs[e] = 1 /\ IsSome(ret[e])

\* a run where one entity failed and another succeeded
C8_Witness ==
    /\ stage = "collected"
    /\ Succeeded # {}
    /\ Listed \ Succeeded # {}

\* C9: a failure of the species, evolution-chain or encounter request leaves
\* the entity in the snapshot, with the corresponding field absent or empty.
C9_DegradesOnly ==
    stage = "collected" =>
        \A e \in Listed :
            oc[e].detail = "ok" =>
                /\ ApiId(e) \in DOMAIN Unwrap(pokemon_map)
                /\ LET p == Unwrap(pokemon_map)[ApiId(e)] IN
                     /\ oc[e].species = "err" => p.specie = None
                     /\ oc[e].evolution = "err" =>
                          IsSome(p.specie) /\ Unwrap(p.specie).evolution_data = <<>>
                     /\ oc[e].encounter = "err" => p.encounter_info \in {None, Some(<<>>)}

MappedBytes(m) == inodes[mmaps[m].ino]

\* the core fields of a record
CoreFields(p) ==
    <<p.pokemon.id, p.pokemon.name, p.pokemon.weight, p.pokemon.height,
      p.pokemon.types, p.pokemon.abilities, p.pokemon.stats>>

\* a call that saved a collection has opened the result
SavedAndOpened == spc \in {"download_sprites", "return_ok"} /\ IsSome(fetched)

\* C3: once a collection is saved with save_to_file and the file is opened
\* (by refresh_data_internal after its save, or by initialize after
\* refresh_data's save), get_pokemon_by_id over the opened view answers
\* every key of the collection with a record of identical id, name, weight,
\* height, types, abilities and stats, and the view has exactly the keys of
\* the collection.
C3_RoundTrip ==
    SavedAndOpened =>
        /\ IsSome(inner.pokemon_data)
        /\ LET data == Some(access(MappedBytes(Unwrap(inner.pokemon_data))).val)
               saved == Unwrap(fetched)
           IN  /\ DOMAIN Unwrap(data) = DOMAIN saved
               /\ \A k \in DOMAIN saved :
                    /\ IsSome(get_pokemon_by_id(data, k))
                    /\ CoreFields(Unwrap(get_pokemon_by_id(data, k))) = CoreFields(saved[k])
               /\ \A k \in 0..MaxLookupId :
                    k \notin DOMAIN saved => get_pokemon_by_id(data, k) = None

\* a collection with a record was saved over an existing cache file and the
\* file opened
C3_Witness ==
    /\ SavedAndOpened
    /\ DOMAIN Unwrap(fetched) # {}
    /\ kills + Len(handles) > 0
    /\ IsSome(inner.pokemon_data)

\* C4: the load_from_file step of initialize attaches a view over the cache
\* file only when the whole file passes validation; when the file is absent,
\* truncated or otherwise fails validation, initialize attaches nothing and
\* goes to the rebuild (fetch, save, re-open); and a view under construction
\* is always over bytes that pass validation.
C4_ValidatedOrRebuilt ==
    [][/\ (spc = "load_from_file" /\ spc' # spc) =>
            IF cache_path # 0 /\ ValidArchive(inodes[cache_path])
            THEN /\ spc' = "return_ok"
                 /\ IsSome(inner'.pokemon_data)
                 /\ mmaps'[Unwrap(inner'.pokemon_data)].ino = cache_path
            ELSE /\ spc' = "fetch_all_pokemon"
                 /\ inner' = NewInner
                 /\ mmaps' = mmaps
       /\ IsSome(inner'.pokemon_data) =>
            /\ mmaps'[Unwrap(inner'.pokemon_data)].live
            /\ ValidArchive(inodes'[mmaps'[Unwrap(inner'.pokemon_data)].ino])
      ]_vars

\* initialize found a cache file left partly written by a terminated save
\* and has gone to the rebuild with nothing attached
C4_Witness ==
    /\ spc = "fetch_all_pokemon"
    /\ op = "initialize"
    /\ cache_path # 0
    /\ ~ValidArchive(inodes[cache_path])
    /\ inner = NewInner

\* C5: while a handle stays referenced, the bytes its mapping reads are the
\* same after every step as before it: no step of a rebuild truncates or
\* overwrites them.
C5_OldSnapshotUntouched ==
    [][\A h \in 1..Len(handles) :
          (/\ StrongCount(handles, app_core, h) > 0
           /\ h <= Len(handles')
           /\ StrongCount(handles', app_core', h) > 0
           /\ IsSome(handles[h]._mmap)
           /\ handles'[h]._mmap = handles[h]._mmap)
          => inodes'[mmaps'[Unwrap(handles[h]._mmap)].ino]
               = inodes[mmaps[Unwrap(handles[h]._mmap)].ino]
      ]_vars

\* the file at the cache path holds a complete blob
CompleteBlob(content) == \E m \in StoreFetchResults : content = to_bytes(m)

\* C6: at every instant the cache path holds no file or a complete blob,
\* never a partly written one.
C6_NeverPartial == cache_path # 0 => CompleteBlob(inodes[cache_path])

\* C7: in every referenced handle, and in the inner under construction, the
\* view is present exactly when the mapping is, the view is over the mapping
\* the same handle holds, and that mapping is still mapped.
C7_ViewWithMapping ==
    /\ IsSome(inner.pokemon_data) <=> IsSome(inner._mmap)
    /\ inner.pokemon_data = inner._mmap
    /\ IsSome(inner._mmap) => mmaps[Unwrap(inner._mmap)].live
    /\ \A h \in 1..Len(handles) :
         StrongCount(handles, app_core, h) > 0 =>
            /\ IsSome(handles[h].pokemon_data) <=> IsSome(handles[h]._mmap)
            /\ handles[h].pokemon_data = handles[h]._mmap
            /\ IsSome(handles[h]._mmap) => mmaps[Unwrap(handles[h]._mmap)].live

\* one handle was dropped and its mapping released, a later one is held by
\* the application and by a caller, with its mapping mapped
C7_Witness ==
    /\ Len(handles) >= 2
    /\ handles[1] = Dropped
    /\ ~mmaps[1].live
    /\ app_core = 2
    /\ handles[2].clones >= 1
    /\ IsSome(handles[2]._mmap)
    /\ mmaps[Unwrap(handles[2]._mmap)].live

(***************************************************************************)
(* Claims about the width and the failure policy of a population run       *)
(* (SpecFetch).                                                            *)
(***************************************************************************)
\* the pipelines in flight: fetch_pokemon_details called and not yet returned
InFlight == {e \in Entities : pc[e] \in {"detail", "encounter", "species", "evolution", "return"}}

\* C11: at every moment of a population run at most FetchWidth pipelines are
\* in flight, however many entities are listed: each holds one permit of the
\* semaphore, and the free permits and the pipelines in flight add up to the
\* width.
C11_WidthBounded ==
    /\ Cardinality(InFlight) <= FetchWidth
    /\ permits >= 0
    /\ permits + Cardinality(InFlight) = FetchWidth

\* the width is reached while a listed entity still waits for its turn
C11_Witness ==
    /\ Cardinality(InFlight) = FetchWidth
    /\ permits = 0
    /\ \E e \in Listed : pc[e] = "queued"

\* C12: when listing the entities fails, no pipeline is ever started, nothing
\* is collected, and fetch_all_pokemon returns the empty collection.
C12_ListFailureAborts ==
    (stage \in {"stream", "collected"} /\ all_entries = <<>>) =>
        /\ \A e \in Entities : runs[e] = 0 /\ pc[e] = "queued" /\ ret[e] = None
        /\ results = <<>>
        /\ stage = "collected" => DOMAIN Unwrap(pokemon_map) = {}

\* the listing failed and the run returned
C12_Witness ==
    /\ stage = "collected"
    /\ all_entries = <<>>
    /\ IsSome(pokemon_map)
    /\ DOMAIN Unwrap(pokemon_map) = {}

(***************************************************************************)
(* Claims about the filters and the search (SpecQuery).                    *)
(***************************************************************************)
\* the ids of a result list, in order
IdsOf(list) == [i \in 1..Len(list) |-> list[i].id]
\* the type set of the snapshot entry under key k
TypeSet(k) == {Unwrap(q_data)[k].pokemon.types[i] :
                  i \in 1..Len(Unwrap(q_data)[k].pokemon.types)}
\* the keys, ascending, that satisfy P
KeysWhere(P(_)) == SelectSeq(QKeys, P)
\* the last call was a type filter
TypeFilterCall == q_call.op \in {"filter_pokemon_inclusive", "filter_pokemon_exclusive"}

\* C13: filter_pokemon_inclusive and filter_pokemon_exclusive called with an
\* empty selected_types return the full listing of the snapshot: every
\* entry, in key order.
C13_EmptySelectionIsFullListing ==
    (TypeFilterCall /\ q_call.selected_types = {}) =>
        /\ q_call.result = get_pokemon_list(q_data)
        /\ IdsOf(q_call.result) = QKeys

\* both filters were called with the empty selection on a snapshot with
\* several entries (the witness names the inclusive call)
C13_Witness ==
    /\ q_call.op = "filter_pokemon_inclusive"
    /\ q_call.selected_types = {}
    /\ Len(q_call.result) >= 2

\* C14: for a non-empty selected_types, filter_pokemon_inclusive returns
\* exactly the entries whose type set has an element in selected_types, in
\* key order.
C14_InclusiveIsIntersection ==
    (q_call.op = "filter_pokemon_inclusive" /\ q_call.selected_types # {}) =>
        LET Hit(k) == TypeSet(k) \cap q_call.selected_types # {} IN
        /\ IdsOf(q_call.result) = KeysWhere(Hit)
        /\ \A i \in 1..Len(q_call.result) :
             q_call.result[i] = PokemonInfo(<<q_call.result[i].id,
                                              Unwrap(q_data)[q_call.result[i].id]>>)

\* two types selected, an entry with only one of them kept and another
\* entry dropped
C14_Witness ==
    /\ q_call.op = "filter_pokemon_inclusive"
    /\ Cardinality(q_call.selected_types) >= 2
    /\ Len(q_call.result) >= 1
    /\ Len(q_call.result) < QLength
    /\ \E i \in 1..Len(q_call.result) :
         ~(q_call.selected_types \subseteq TypeSet(q_call.result[i].id))

\* C15: for a non-empty selected_types, filter_pokemon_exclusive returns
\* exactly the entries whose type set is a superset of selected_types, in
\* key order.
C15_ExclusiveIsSuperset ==
    (q_call.op = "filter_pokemon_exclusive" /\ q_call.selected_types # {}) =>
        LET Hit(k) == q_call.selected_types \subseteq TypeSet(k) IN
        /\ IdsOf(q_call.result) = KeysWhere(Hit)
        /\ \A i \in 1..Len(q_call.result) :
             q_call.result[i] = PokemonInfo(<<q_call.result[i].id,
                                              Unwrap(q_data)[q_call.result[i].id]>>)

\* two types selected, and an entry that has only one of them dropped
C15_Witness ==
    /\ q_call.op = "filter_pokemon_exclusive"
    /\ Cardinality(q_call.selected_types) = 2
    /\ IsSome(q_data)
    /\ \E k \in DOMAIN Unwrap(q_data) :
         /\ TypeSet(k) \cap q_call.selected_types # {}
         /\ \A i \in 1..Len(q_call.result) : q_call.result[i].id # k

\* needle occurs in haystack at some position when each character of both
\* is taken in lower case
ContainsIgnoringCase(haystack, needle) ==
    \E i \in 0..(Len(chars(haystack)) - Len(chars(needle))) :
        \A j \in 1..Len(chars(needle)) :
            lower_char(chars(haystack)[i + j]) = lower_char(chars(needle)[j])

\* C18: search_pokemon(q) returns exactly the snapshot entries whose name
\* contains q as a substring when letter case is ignored on both sides, in
\* key order.
C18_SearchIgnoresCase ==
    q_call.op = "search_pokemon" =>
        LET Hit(k) == ContainsIgnoringCase(Unwrap(q_data)[k].pokemon.name, q_call.query) IN
        /\ IdsOf(q_call.result) = KeysWhere(Hit)
        /\ \A i \in 1..Len(q_call.result) :
             q_call.result[i] = PokemonInfo(<<q_call.result[i].id,
                                              Unwrap(q_data)[q_call.result[i].id]>>)

\* a query with upper-case letters finds a name inside which it occurs in
\* lower case, and another entry is left out
C18_Witness ==
    /\ q_call.op = "search_pokemon"
    /\ q_call.query = "Saur"
    /\ Len(q_call.result) >= 1
    /\ Len(q_call.result) < QLength

(***************************************************************************)
(* Claims about the filters over a list (SpecFilter).                      *)
(***************************************************************************)
\* a is a subsequence of b: the elements of a appear in b in the same order
RECURSIVE IsSubsequence(_, _)
IsSubsequence(a, b) ==
    IF a = <<>> THEN TRUE
    ELSE IF b = <<>> THEN FALSE
    ELSE IF Head(a) = Head(b) THEN IsSubsequence(Tail(a), Tail(b))
    ELSE IsSubsequence(a, Tail(b))

\* the snapshot has an entry under the id of info
InSnapshot(info) == IsSome(q_data) /\ info.id \in DOMAIN Unwrap(q_data)

\* the sum of the six stats of the snapshot entry under key k
StatSum(k) ==
    LET st == Unwrap(q_data)[k].pokemon.stats
    IN  st.hp + st.attack + st.defense + st.sp_attack + st.sp_defense + st.speed

\* C16: filter_pokemon_by_generation returns a subsequence of the list it
\* is given, and every entry it keeps is an entry of the snapshot with a
\* species whose generation, as a string, is in selected_generations.
C16_GenerationNarrows ==
    q_call.op = "filter_pokemon_by_generation" =>
        /\ IsSubsequence(q_call.result, q_call.pokemon_list)
        /\ \A i \in 1..Len(q_call.result) :
             /\ InSnapshot(q_call.result[i])
             /\ IsSome(Unwrap(q_data)[q_call.result[i].id].specie)
             /\ generation_to_string(Unwrap(Unwrap(q_data)[q_call.result[i].id].specie).generation)
                   \in q_call.selected_generations

\* a reversed part of the listing is narrowed: an entry is kept, one is
\* dropped, and the snapshot has a matching entry that the list lacks
C16_Witness ==
    /\ q_call.op = "filter_pokemon_by_generation"
    /\ Len(q_call.pokemon_list) >= 2
    /\ q_call.pokemon_list[1].id > q_call.pokemon_list[2].id
    /\ Len(q_call.result) >= 1
    /\ Len(q_call.result) < Len(q_call.pokemon_list)
    /\ \E k \in DOMAIN Unwrap(q_data) :
         /\ \A i \in 1..Len(q_call.pokemon_list) : q_call.pokemon_list[i].id # k
         /\ IsSome(Unwrap(q_data)[k].specie)
         /\ generation_to_string(Unwrap(Unwrap(q_data)[k].specie).generation)
               \in q_call.selected_generations

\* C17: filter_pokemon_stats_with_list keeps exactly the entries of its list
\* whose six stats sum to at least the threshold, in the list's order, and
\* filter_pokemon_stats exactly such entries of the whole snapshot, in key
\* order.
C17_TotalStatsThreshold ==
    /\ q_call.op = "filter_pokemon_stats_with_list" =>
         LET Keep(info) == InSnapshot(info) /\ StatSum(info.id) >= q_call.total_power
         IN  q_call.result = SelectSeq(q_call.pokemon_list, Keep)
    /\ q_call.op = "filter_pokemon_stats" =>
         LET Hit(k) == StatSum(k) >= q_call.total_power
         IN  /\ IdsOf(q_call.result) = KeysWhere(Hit)
             /\ \A i \in 1..Len(q_call.result) :
                  q_call.result[i] = PokemonInfo(<<q_call.result[i].id,
                                                   Unwrap(q_data)[q_call.result[i].id]>>)

\* an entry whose sum equals the threshold is kept and one below it dropped
C17_Witness ==
    /\ q_call.op = "filter_pokemon_stats_with_list"
    /\ \E i \in 1..Len(q_call.result) : StatSum(q_call.result[i].id) = q_call.total_power
    /\ \E i \in 1..Len(q_call.pokemon_list) :
         /\ InSnapshot(q_call.pokemon_list[i])
         /\ StatSum(q_call.pokemon_list[i].id) < q_call.total_power

(***************************************************************************)
(* Claims about the evolution extraction (SpecExtract).                    *)
(***************************************************************************)
\* node a is node d or an ancestor of it
RECURSIVE IsAncestor(_, _, _)
IsAncestor(parent, a, d) ==
    IF d = a THEN TRUE
    ELSE IF d = 1 THEN FALSE
    ELSE IsAncestor(parent, a, parent[d])

\* C19: extract_evolution_data_from_chain_link returns one node per node of
\* the tree, in depth-first pre-order following each node's child order: the
\* root first, every node before its descendants, the subtree of a node in
\* one block that starts with the node, the blocks of siblings in child
\* order; the root carries no requirement and every other node the
\* requirement extracted from the details of the edge from its parent.
C19_PreOrderWithRequirements ==
    e_call.op = "extract_evolution_data_from_chain_link" =>
        LET n == e_input.n
            parent == e_input.parent
            out == e_call.result
            Pos(v) == CHOOSE i \in 1..Len(out) : out[i].id = v
            Desc(v) == {d \in 1..n : IsAncestor(parent, v, d)}
        IN  /\ Len(out) = n
            /\ {out[i].id : i \in 1..Len(out)} = 1..n
            /\ out[1].id = 1
            /\ out[1].needs_to_evolve = None
            /\ \A v \in 1..n :
                 /\ out[Pos(v)].name = capitalize_string(NodeNames[v])
                 /\ {Pos(d) : d \in Desc(v)} = Pos(v)..(Pos(v) + Cardinality(Desc(v)) - 1)
            /\ \A v \in 2..n :
                 /\ Pos(parent[v]) < Pos(v)
                 /\ out[Pos(v)].needs_to_evolve
                       = extract_evolution_requirement(e_input.details[v])
            /\ \A u, v \in 2..n : (u < v /\ parent[u] = parent[v]) => Pos(u) < Pos(v)

\* the tree A -> {B (level 16), C (level 36)} with D, without condition,
\* under B: four nodes A, B, D, C with none, Level 16, none, Level 36
C19_Witness ==
    /\ e_call.op = "extract_evolution_data_from_chain_link"
    /\ e_input.n = 4
    /\ e_input.parent[2] = 1
    /\ e_input.parent[3] = 1
    /\ e_input.parent[4] = 2
    /\ [i \in 1..4 |-> e_call.result[i].id] = <<1, 2, 4, 3>>
    /\ [i \in 1..4 |-> e_call.result[i].needs_to_evolve]
          = <<None, Some(FormatInt("Level ", 16)), None, Some(FormatInt("Level ", 36))>>

\* the conditions in the order the extraction consults them
ConditionOrder ==
    <<"min_level", "item", "held_item", "min_happiness", "time_of_day", "location",
      "known_move", "relative_physical_stats">>
\* the condition is present in the detail record (a relative physical
\* stats value is a condition when it is one of the three comparisons)
Present(d, c) ==
    CASE c = "min_level" -> d.min_level # None
      [] c = "item" -> d.item # None
      [] c = "held_item" -> d.held_item # None
      [] c = "min_happiness" -> d.min_happiness # None
      [] c = "time_of_day" -> d.time_of_day # ""
      [] c = "location" -> d.location # None
      [] c = "known_move" -> d.known_move # None
      [] c = "relative_physical_stats" ->
           d.relative_physical_stats \in {Some(1), Some(0 - 1), Some(0)}
\* the requirement text of a present condition
RequirementText(d, c) ==
    CASE c = "min_level" -> FormatInt("Level ", d.min_level[1])
      [] c = "item" -> FormatStr("", capitalize_string(d.item[1]))
      [] c = "held_item" -> FormatStr("Holding ", capitalize_string(d.held_item[1]))
      [] c = "min_happiness" -> FormatInt("Happiness ", d.min_happiness[1])
      [] c = "time_of_day" -> FormatStr("During ", capitalize_string(d.time_of_day))
      [] c = "location" -> FormatStr("At ", capitalize_string(d.location[1]))
      [] c = "known_move" -> FormatStr("Knowing ", capitalize_string(d.known_move[1]))
      [] c = "relative_physical_stats" ->
           CASE d.relative_physical_stats[1] = 1 -> FormatStr("Attack > Defense", "")
             [] d.relative_physical_stats[1] = 0 - 1 -> FormatStr("Defense > Attack", "")
             [] d.relative_physical_stats[1] = 0 -> FormatStr("Attack = Defense", "")

\* C20: extract_evolution_requirement returns absent for an empty detail
\* list; otherwise it returns the requirement of the first condition, in the
\* order min level, item, held item, min happiness, time of day, location,
\* known move, relative physical stats, that the first detail record has,
\* absent when it has none; the records after the first never change the
\* result.
C20_FirstDetailByPriority ==
    e_call.op = "extract_evolution_requirement" =>
        LET ds == e_input.evolution_details IN
        IF ds = <<>> THEN e_call.result = None
        ELSE LET present == SelectSeq(ConditionOrder, LAMBDA c : Present(ds[1], c)) IN
             /\ e_call.result = IF present = <<>> THEN None
                                ELSE Some(RequirementText(ds[1], present[1]))
             /\ e_call.result = extract_evolution_requirement(<<ds[1]>>)

\* the first record has an item and later conditions but no level, a later
\* record has a level: the item is the requirement
C20_Witness ==
    /\ e_call.op = "extract_evolution_requirement"
    /\ Len(e_input.evolution_details) >= 2
    /\ e_input.evolution_details[1].min_level = None
    /\ e_input.evolution_details[1].item # None
    /\ e_input.evolution_details[1].known_move # None
    /\ e_input.evolution_details[2].min_level # None
    /\ e_call.result = Some(FormatStr("", "Fire Stone"))

(***************************************************************************)
(* Claims about the evolution-chain reference (SpecDetails).               *)
(***************************************************************************)
\* the text after the last '/' of the URL once its trailing '/' are dropped:
\* the last non-empty piece, or the empty text when every piece is empty
TrailingSegment(url) ==
    LET full == {i \in 1..Len(url) : url[i] # ""} IN
    IF full = {} THEN "" ELSE url[CHOOSE i \in full : \A j \in full : j <= i]

\* C21: when the trailing segment of the species' chain URL is 0 or not an
\* integer, the call makes no evolution-chain request, the record it returns
\* has empty evolution data, and the call succeeds (the entity stays in the
\* snapshot); when the segment is a valid id n, chain n is the one requested.
C21_ChainIdFromTrailingSegment ==
    (/\ e_call.op = "fetch_pokemon_details"
     /\ e_call.pc = "done"
     /\ e_call.oc.species = "ok"
     /\ IsSome(e_input.evolution_chain)) =>
        LET n == ParseI64(TrailingSegment(Unwrap(e_input.evolution_chain)))
            r == Unwrap(e_call.result)
        IN  IF n = None \/ n = Some(0)
            THEN /\ e_call.oc.evolution = "none"
                 /\ e_call.requested = None
                 /\ r.ok
                 /\ IsSome(r.val.specie)
                 /\ Unwrap(r.val.specie).evolution_data = <<>>
            ELSE /\ e_call.oc.evolution # "none"
                 /\ e_call.requested = n
                 /\ r.ok
                 /\ e_call.oc.evolution = "ok" =>
                      Unwrap(r.val.specie).evolution_data
                          = extract_evolution_data_from_chain_link(ApiChainTable[Unwrap(n)])

\* the reference .../evolution-chain/0/: no chain requested, the record is
\* returned without evolution data
C21_Witness ==
    /\ e_call.op = "fetch_pokemon_details"
    /\ e_call.pc = "done"
    /\ e_input.evolution_chain = Some(ChainUrl("0"))
    /\ e_call.oc.species = "ok"
    /\ e_call.requested = None
    /\ Unwrap(e_call.result).ok
    /\ Unwrap(Unwrap(e_call.result).val.specie).evolution_data = <<>>

(***************************************************************************)
(* Claims about the sprite batch (SpecSprites).                            *)
(***************************************************************************)
\* C22: an entity whose sprite file already exists is processed without any
\* network request and its download counts as a success, the file left as
\* it was.
C22_ExistingFileNoNetwork ==
    \A e \in SpriteListed :
        (s_pc[e] = "done" /\ s_files[e] = "old") =>
            /\ s_calls[e] = {}
            /\ IsSome(s_results[e])
            /\ Unwrap(s_results[e]).ok

\* C23: the batch never stops before every listed entity was processed, and
\* it returns Ok whatever the downloads returned.
C23_FailuresNeverAbort ==
    /\ s_stage # "panicked"
    /\ (s_stage = "returned" /\ s_ret # Some(Err)) =>
          /\ s_ret = Some(Ok("unit"))
          /\ \A e \in SpriteListed : s_pc[e] = "done" /\ IsSome(s_results[e])

\* C24: the downloads in flight never exceed the width of the batch's
\* semaphore, every one of them holds a permit of that semaphore, and the
\* semaphore of the data fetch keeps all its permits.
C24_SpriteWidthBounded ==
    /\ Cardinality(SpriteInFlight) <= SpriteWidth
    /\ s_permits = SpriteWidth - Cardinality(SpriteInFlight)
    /\ permits = FetchWidth

\* the batch is at its width and a further entity waits
C24_Witness ==
    /\ s_stage = "stream"
    /\ Cardinality(SpriteInFlight) = SpriteWidth
    /\ s_permits = 0
    /\ \E e \in SpriteListed : s_pc[e] = "queued"

(***************************************************************************)
(* Claims about the life of a build (SpecStore).                           *)
(***************************************************************************)
\* the initialize that DeleteCache started: the application stays in
\* State::Ready while it runs (app.rs:600-612)
RenewRunning == op = "initialize" /\ self = 0 /\ app_state = "Ready"

\* C25: the core that a renew installs was built by a population run of
\* that renew: when the initialize started by DeleteCache returns a core,
\* fetch_all_pokemon has run in it.
C25_RenewRebuilds == (RenewRunning /\ spc = "return_ok") => fetched # None

\* C26: an initialize that finds a valid cache file goes straight to its
\* return with the file mapped, without fetch_all_pokemon and without the
\* sprite batch; fetch_all_pokemon is entered only by refresh_data or after a
\* load_from_file that failed.
C26_ValidCacheNoNetwork ==
    [][/\ (/\ spc = "load_from_file"
           /\ load_from_file(cache_path, inodes).ok
           /\ spc' # spc
           /\ kills' = kills) =>
                /\ spc' = "return_ok"
                /\ fetched' = fetched
       /\ (spc = "return_ok" /\ spc' # spc /\ kills' = kills) =>
                /\ spc' = "none"
                /\ op' = "idle"
       /\ (spc' = "fetch_all_pokemon" /\ spc # "fetch_all_pokemon") =>
                \/ op' = "refresh_data"
                \/ spc = "load_from_file" /\ ~load_from_file(cache_path, inodes).ok
      ]_vars

\* an initialize is about to return the snapshot of a cache file it found,
\* having fetched nothing
C26_Witness ==
    /\ op = "initialize"
    /\ self = 0
    /\ spc = "return_ok"
    /\ fetched = None
    /\ IsSome(inner.pokemon_data)
    /\ DOMAIN access(inodes[cache_path]).val # {}

\* the steps of a build
BuildSteps == {"fetch_all_pokemon", "save_open", "save_write", "reload", "download_sprites"}

\* C28: when the process is terminated in the middle of a build, the
\* initialize of the next start finds no usable cache file, so it starts the
\* build over.
C28_KillRestartsBuild ==
    [][(kills' = kills + 1 /\ op = "initialize" /\ self = 0 /\ spc \in BuildSteps) =>
            ~load_from_file(cache_path', inodes').ok]_vars

\* C29: a call that failed returns its error without running the build
\* again, the application enters State::Error, and in State::Error no
\* initialize starts unless the application is started again.
C29_NoAutomaticRetry ==
    [][/\ (spc = "return_err" /\ self = 0 /\ spc' # spc /\ kills' = kills) =>
                /\ app_state' = "Error"
                /\ op' = "idle"
       /\ (spc \in (BuildSteps \ {"fetch_all_pokemon"}) \cup {"return_err"} /\ kills' = kills) =>
                spc' # "fetch_all_pokemon"
       /\ (app_state = "Error" /\ op = "idle" /\ kills' = kills) =>
                op' \in {"idle", "refresh_data"}
      ]_vars

\* a build failed at its save and the application is in State::Error with
\* no call running
C29_Witness ==
    /\ app_state = "Error"
    /\ op = "idle"
    /\ app_core = 0
    /\ kills = 0

\* C27: the file initialize opens is one the running format version wrote:
\* a blob of another version is neither mapped and validated nor served
C27_PathEncodesFormatVersion ==
    /\ \A w \in u_attempted : w = u_version
    /\ IsSome(u_opened) => Unwrap(u_opened).written_by = u_version

\* C30: at most one initialize runs at a time, and the file the core in
\* State::Ready maps is never truncated or rewritten under it
C30_OneBuildAtATime ==
    /\ Cardinality(Running(b_tasks)) <= 1
    /\ b_core # 0 => ValidArchive(b_inodes[b_core])

(***************************************************************************)
(* Further claims about the filters over a list (SpecFilter).              *)
(***************************************************************************)
\* the entry of the snapshot under the id of info has species info of a
\* generation whose string is in selected
SpeciesSelected(info, selected) ==
    /\ InSnapshot(info)
    /\ IsSome(Unwrap(q_data)[info.id].specie)
    /\ generation_to_string(Unwrap(Unwrap(q_data)[info.id].specie).generation) \in selected

\* C33: filter_pokemon_by_generation keeps exactly the entries of its list
\* whose id is a key of the snapshot, whose record has species info and
\* whose species' generation is selected; the empty selection gives the
\* empty list, and a record without species info is dropped whatever is
\* selected, the Unknown generation included.
C33_GenerationNeedsSpecies ==
    q_call.op = "filter_pokemon_by_generation" =>
        LET Keep(info) == SpeciesSelected(info, q_call.selected_generations) IN
        /\ q_call.result = SelectSeq(q_call.pokemon_list, Keep)
        /\ q_call.selected_generations = {} => q_call.result = <<>>
        /\ \A i \in 1..Len(q_call.pokemon_list) :
             (/\ InSnapshot(q_call.pokemon_list[i])
              /\ ~IsSome(Unwrap(q_data)[q_call.pokemon_list[i].id].specie))
             => \A j \in 1..Len(q_call.result) : q_call.result[j] # q_call.pokemon_list[i]

\* Unknown is among the selected generations, the list holds a record
\* without species info, which is dropped, and one that is kept
C33_Witness ==
    /\ q_call.op = "filter_pokemon_by_generation"
    /\ "unknown" \in q_call.selected_generations
    /\ \E i \in 1..Len(q_call.pokemon_list) :
         /\ InSnapshot(q_call.pokemon_list[i])
         /\ ~IsSome(Unwrap(q_data)[q_call.pokemon_list[i].id].specie)
    /\ Len(q_call.result) >= 1

\* C36: on one snapshot filter_pokemon_stats_with_list and
\* filter_pokemon_by_generation are idempotent, and applied to the same
\* list in either order they give the same list.
C36_FiltersIdempotentAndCommute ==
    /\ q_call.op = "filter_pokemon_by_generation" =>
         /\ filter_pokemon_by_generation(q_data, q_call.result, q_call.selected_generations)
               = q_call.result
         /\ \A total_power \in SelectableTotals :
              filter_pokemon_stats_with_list(q_data, q_call.result, total_power)
                = filter_pokemon_by_generation(
                      q_data,
                      filter_pokemon_stats_with_list(q_data, q_call.pokemon_list, total_power),
                      q_call.selected_generations)
    /\ q_call.op = "filter_pokemon_stats_with_list" =>
         /\ filter_pokemon_stats_with_list(q_data, q_call.result, q_call.total_power)
               = q_call.result
         /\ \A selected_generations \in SUBSET SelectableGenerations :
              filter_pokemon_by_generation(q_data, q_call.result, selected_generations)
                = filter_pokemon_stats_with_list(
                      q_data,
                      filter_pokemon_by_generation(q_data, q_call.pokemon_list,
                                                   selected_generations),
                      q_call.total_power)

\* each filter alone drops an entry of the list the other keeps, and the
\* two together keep one
C36_Witness ==
    /\ q_call.op = "filter_pokemon_by_generation"
    /\ Len(q_call.result) < Len(q_call.pokemon_list)
    /\ \E total_power \in SelectableTotals :
         LET both == filter_pokemon_stats_with_list(q_data, q_call.result, total_power)
             stats == filter_pokemon_stats_with_list(q_data, q_call.pokemon_list, total_power)
         IN  /\ Len(both) >= 1
             /\ Len(both) < Len(q_call.result)
             /\ Len(both) < Len(stats)

(***************************************************************************)
(* A further claim about the query layer (SpecQuery).                      *)
(***************************************************************************)
\* the last call was one of the queries that return a list of summaries
\* built from the snapshot
ListCall ==
    q_call.op \in {"get_pokemon_list", "get_pokemon_page", "search_pokemon",
                   "filter_pokemon_inclusive", "filter_pokemon_exclusive",
                   "filter_pokemon_stats"}

\* C35: every list returned by get_pokemon_list, get_pokemon_page,
\* search_pokemon, filter_pokemon_inclusive, filter_pokemon_exclusive and
\* filter_pokemon_stats is strictly ascending by id, holds only ids that
\* are keys of the snapshot, and each summary has the name and the
\* sprite_path of the record stored under its id.
C35_ListsAscendingFromSnapshot ==
    ListCall =>
        /\ \A i \in 1..(Len(q_call.result) - 1) : q_call.result[i].id < q_call.result[i + 1].id
        /\ \A i \in 1..Len(q_call.result) :
             /\ IsSome(q_data)
             /\ q_call.result[i].id \in DOMAIN Unwrap(q_data)
             /\ q_call.result[i].name = Unwrap(q_data)[q_call.result[i].id].pokemon.name
             /\ q_call.result[i].sprite_path = Unwrap(q_data)[q_call.result[i].id].sprite_path

\* the stats filter returned several entries of a snapshot and left one
\* out
C35_Witness ==
    /\ q_call.op = "filter_pokemon_stats"
    /\ Len(q_call.result) >= 2
    /\ Len(q_call.result) < QLength

(***************************************************************************)
(* A claim about the termination of the population run (SpecFetchLive).    *)
(***************************************************************************)
\* C34: when every pipeline terminates, fetch_all_pokemon terminates: it
\* comes to its collect, having run the pipeline once for each listed
\* entity and for no other, every pipeline returned and every permit back
\* in the semaphore; and no pipeline waits for a permit forever.
C34_FetchTerminates ==
    /\ <>[](/\ stage = "collected"
            /\ permits = FetchWidth
            /\ \A e \in Entities :
                 /\ runs[e] = IF e \in Listed THEN 1 ELSE 0
                 /\ IsSome(ret[e]) <=> e \in Listed)
    /\ \A e \in Entities : (pc[e] = "acquire") ~> (pc[e] = "detail")

\* the run has ended with more listed entities than permits and with a
\* pipeline that failed
C34_Witness ==
    /\ stage = "collected"
    /\ Len(all_entries) > FetchWidth
    /\ permits = FetchWidth
    /\ \E e \in Listed : ~Unwrap(ret[e]).ok

(***************************************************************************)
(* A claim about the empty snapshot (SpecStore).                           *)
(***************************************************************************)
\* the collection of a population run in which nothing succeeded, and its
\* blob
EmptyCollection == CollectPokemonMap(<<>>)
EmptyBlob == to_bytes(EmptyCollection)
\* the cache file holds the empty snapshot
EmptyCache == cache_path # 0 /\ inodes[cache_path] = EmptyBlob

\* C31: an empty collection is written like any other: after the save the
\* cache file is the empty snapshot and the call goes on to return a
\* handle over it with zero entries; and while the cache file is the empty
\* snapshot no initialize goes to the population (refresh_data, which is
\* asked to rebuild, does).
C31_EmptySnapshotIsCacheHit ==
    /\ (spc = "reload" /\ fetched = Some(EmptyCollection)) => EmptyCache
    /\ (spc \in {"download_sprites", "return_ok"} /\ fetched = Some(EmptyCollection)) =>
         /\ IsSome(inner._mmap)
         /\ IsSome(inner.pokemon_data)
         /\ access(MappedBytes(Unwrap(inner._mmap))).ok
         /\ DOMAIN access(MappedBytes(Unwrap(inner._mmap))).val = {}
    /\ (op = "initialize" /\ spc = "fetch_all_pokemon") => ~EmptyCache

\* an initialize that fetched nothing returns a handle over the empty
\* snapshot a run before it wrote
C31_Witness ==
    /\ op = "initialize"
    /\ spc = "return_ok"
    /\ fetched = None
    /\ EmptyCache
    /\ IsSome(inner._mmap)
    /\ MappedBytes(Unwrap(inner._mmap)) = EmptyBlob

(***************************************************************************)
(* Claims about the application model (SpecApp).                           *)
(***************************************************************************)
\* the page the list shows while nothing narrows it
CurrentPage ==
    get_pokemon_page(a_data, a_page * a_config.pokemon_per_page, a_config.pokemon_per_page)
\* no filter is applied and the search text is empty
Unnarrowed == ~any_applied(a_filters) /\ a_search = ""

\* C32: in State::Ready, after any sequence of messages, whenever no filter
\* is applied and the search text is empty, pokemon_list equals
\* get_pokemon_page(current_page * pokemon_per_page, pokemon_per_page).
C32_ListIsCurrentPage == (AppReady /\ Unnarrowed) => a_list = CurrentPage

\* an entry of the listing passes the filters in force
PassesFilters(pokemon_info) ==
    LET pokemon == Unwrap(a_data)[pokemon_info.id] IN
    /\ \/ a_filters.selected_types = {}
       \/ /\ a_config.type_filtering_mode = "Inclusive"
          /\ \E i \in 1..Len(TypesOf(pokemon)) :
                to_lowercase(TypesOf(pokemon)[i]) \in a_filters.selected_types
       \/ /\ a_config.type_filtering_mode = "Exclusive"
          /\ \A t \in a_filters.selected_types :
                \E i \in 1..Len(TypesOf(pokemon)) : to_lowercase(TypesOf(pokemon)[i]) = t
    /\ \/ ~(a_filters.total_stats[1] /\ a_filters.total_stats[2] > 0)
       \/ StatsMatch(a_data, pokemon_info, a_filters.total_stats[2])
    /\ \/ a_filters.selected_generations = {}
       \/ GenerationMatch(a_data, pokemon_info, a_filters.selected_generations)

\* C37: ApplyCurrentFilters with a filter applied sets the list to exactly
\* the snapshot entries that pass the type filter in the configured mode (if
\* a type is selected), the stats filter (if enabled with a threshold above
\* 0) and the generation filter (if a generation is selected), clears the
\* search text and resets current_page to 0; with no filter applied it leaves
\* the list, the search text and current_page as they are.
C37_ApplySetsFilteredList ==
    [][AppApplyCurrentFilters =>
          IF any_applied(a_filters)
          THEN /\ a_list' = SelectSeq(get_pokemon_list(a_data), PassesFilters)
               /\ a_search' = ""
               /\ a_page' = 0
          ELSE /\ a_list' = a_list
               /\ a_search' = a_search
               /\ a_page' = a_page]_vars

\* the three filters are in force and the list is what passes them, a list
\* no page and no search produces
C37_Witness ==
    /\ AppReady
    /\ a_filters.selected_types # {}
    /\ a_filters.selected_generations # {}
    /\ a_filters.total_stats[1]
    /\ a_filters.total_stats[2] > 0
    /\ a_search = ""
    /\ a_page = 0
    /\ a_list = SelectSeq(get_pokemon_list(a_data), PassesFilters)
    /\ a_list # <<>>
    /\ Len(a_list) < Len(get_pokemon_list(a_data))
    /\ a_list # get_pokemon_page(a_data, 0, a_config.pokemon_per_page)

\* the page after the current one
FollowingPage ==
    get_pokemon_page(a_data, (a_page + 1) * a_config.pokemon_per_page,
                     a_config.pokemon_per_page)

\* C38: list pagination.  Next increases current_page by exactly one and
\* replaces the list only when the following page is not empty; Back
\* decreases current_page by exactly one only when current_page >= 1; both
\* change nothing while a filter is applied or the search text is not empty;
\* current_page never goes below 0 and, while no filter and no search is
\* active, current_page * pokemon_per_page stays below the length of a
\* snapshot that is not empty.
C38_ListPagination ==
    /\ [][/\ AppListNext =>
                IF Unnarrowed /\ FollowingPage # <<>>
                THEN a_page' = a_page + 1 /\ a_list' = FollowingPage
                ELSE a_page' = a_page /\ a_list' = a_list
          /\ AppListBack =>
                /\ a_page' \in {a_page, a_page - 1}
                /\ a_page' = a_page - 1 => a_page >= 1
                /\ a_page' = a_page => a_list' = a_list
                /\ ~Unnarrowed => (a_page' = a_page /\ a_list' = a_list)]_vars
    /\ [](a_page >= 0)
    /\ []((AppReady /\ Unnarrowed /\ get_pokemon_list(a_data) # <<>>)
             => a_page * a_config.pokemon_per_page < Len(get_pokemon_list(a_data)))

\* the list is on its second page, which only Next reaches
C38_Witness ==
    /\ AppReady
    /\ Unnarrowed
    /\ a_page = 1
    /\ a_list = CurrentPage
    /\ a_list # <<>>

\* the positions of the list that hold the selection
SelectedAt ==
    IF IsSome(a_selected)
    THEN {i \in 1..Len(a_list) : a_list[i].id = Unwrap(a_selected).pokemon.id}
    ELSE {}
\* the entry of the snapshot the list shows at a position
SnapshotEntry(i) == Some(Unwrap(a_data)[a_list[i].id])

====
